---- MODULE Spec2Model ----
(***************************************************************************)
(* State-machine model of the wordpool backend: the ledger                 *)
(* (TransactionService), the round coordinator (RoundService and the       *)
(* rounds / player routers), the vote service with finalization and        *)
(* scoring, and the prize claim.                                           *)
(*                                                                         *)
(* Every HTTP handler whose router part and service part are separated by  *)
(* awaits is modelled as two steps: a Request* action (the router's        *)
(* checks on the objects it loaded) that leaves an entry in `pending`, and *)
(* an Exec* action (the service body).  Other requests may run in between, *)
(* which is exactly the interleaving the asyncio server allows.            *)
(***************************************************************************)
EXTENDS Integers, Sequences, FiniteSets, TLC

\* ---------------------------------------------------------------- settings
starting_balance == 1000
daily_bonus_amount == 100
prompt_cost == 100
copy_cost_normal == 100
copy_cost_discount == 90
vote_cost == 1
vote_payout_correct == 5
wordset_prize_pool == 300
max_outstanding_prompts == 10
copy_discount_threshold == 10
prompt_round_seconds == 180
copy_round_seconds == 180
vote_round_seconds == 60
grace_period_seconds == 5
closing_window_seconds == 60
third_vote_window_seconds == 600
max_votes == 20
abandon_cooldown_seconds == 86400
SecondsPerDay == 86400

\* ------------------------------------------------------------------ bounds
MaxRounds == 3        \* rounds created in one behaviour of the round engine
MaxVoteRounds == 3    \* vote rounds created in one behaviour of the vote engine
MaxPending == 2       \* requests in flight between router and service
MaxPhrasesets == 1    \* phrasesets a request may name
MaxTime == 86600      \* the clock of the round engine stops here
MaxVoteTime == 86470  \* the clock of the vote engine stops here

\* ------------------------------------------------------------------ values
Null == 0             \* a NULL id
NoTime == -1          \* a NULL timestamp
RoundPlayers == {"a", "b", "c"}
Voters == {"v1", "v2"}
PastVoters == {"u1", "u2", "u3", "u4", "u5"}
Players == RoundPlayers \cup Voters \cup PastVoters
Words == {"W1", "W2", "W3"}   \* the dictionary
BadWord == "zz"               \* an input that is not in the dictionary
StartTime == SecondsPerDay   \* the clock at Init: 00:00 of day 1


VARIABLES
  now,              \* datetime.now(UTC), in seconds
  balance,          \* players.balance
  active_round_id,  \* players.active_round_id
  last_login_date,  \* players.last_login_date
  journal,          \* transactions, per player, in insertion order
  rounds,           \* rounds table; round_id is the index
  queue,            \* queue:prompts, a FIFO of prompt round ids
  abandoned,        \* player_abandoned_prompts
  phrasesets,       \* phrasesets table; phraseset_id is the index
  votes,            \* votes table; vote_id is the index
  result_views,     \* result_views table
  pending,          \* requests between their router part and service part
  response,         \* what the last completed request returned
  memory_hits,      \* RateLimiter._memory_hits: per key, the recorded hits
  checked           \* the call a PhraseValidator has answered, with its result

vars == <<now, balance, active_round_id, last_login_date, journal, rounds,
          queue, abandoned, phrasesets, votes, result_views, pending, response,
          memory_hits, checked>>

NoResponse == [op |-> "none", player |-> "", code |-> "", id |-> Null,
               amount |-> 0, flag |-> FALSE]

\* a handler that answers 500 whatever it has done
RespFailed(op, p, code) ==
  [op |-> op, player |-> p, code |-> "error_500", id |-> Null,
   amount |-> 0, flag |-> FALSE]

Resp(op, p, code) == [op |-> op, player |-> p, code |-> code, id |-> Null,
                      amount |-> 0, flag |-> FALSE]

RespClaim(p, ps, amount, already) ==
  [op |-> "claim_prize", player |-> p, code |-> "ok", id |-> ps,
   amount |-> amount, flag |-> already]

NoSnap == [vote_count |-> 0, third_vote_at |-> NoTime, fifth_vote_at |-> NoTime]

Req(op, p) == [op |-> op, player |-> p, round |-> Null, phraseset |-> Null,
               phrase |-> "", snap |-> NoSnap, stage |-> "checked",
               new_balance |-> 0]

RemoveAt(s, i) == [j \in 1..(Len(s) - 1) |-> IF j < i THEN s[j] ELSE s[j + 1]]

RECURSIVE SumSeq(_)
SumSeq(s) == IF s = <<>> THEN 0 ELSE s[1] + SumSeq(Tail(s))

Date(t) == t \div SecondsPerDay

\* the keys of the rate limiter: f"{scope}:{identifier}"
RateScopes == {"general", "vote_submit"}
RateIds == {"k1", "k2"}
RateKeys == RateScopes \X RateIds

\* RateLimiter.__init__: no key has a bucket yet
NoHits == [key \in RateKeys |-> <<>>]

\* no PhraseValidator call has been answered
NoCheck == [op |-> "none", phrase |-> <<>>, original |-> <<>>, other |-> <<>>,
            similarity |-> "none", valid |-> FALSE]

\* players.created_at: a registered on the day before day 0, everyone else
\* on day 1.
created_at(p) == IF p = "a" THEN -SecondsPerDay ELSE StartTime

\* ------------------------------------------------------------------ ledger
\* A ledger value L is [bal |-> balances, jr |-> journals]; the operators
\* below thread it through the successive create_transaction calls of one
\* handler.
Ledger == [bal |-> balance, jr |-> journal]

\* a create_transaction that has lost its balance check
InsufficientBalanceUnchecked(L, p, amount) == FALSE

\* the test of create_transaction that raises InsufficientBalanceError
InsufficientBalance(L, p, amount) == L.bal[p] + amount < 0

\* a create_transaction that posts nothing
NoTransaction(L, p, amount, type, ref) == L

create_transaction(L, p, amount, type, ref) ==
  [bal |-> [L.bal EXCEPT ![p] = @ + amount],
   jr  |-> [L.jr EXCEPT ![p] = Append(@, [amount |-> amount, type |-> type,
                                          reference_id |-> ref,
                                          balance_after |-> L.bal[p] + amount])]]

\* ------------------------------------------------------------------ tables
NewRound(p, type, cost, seconds, prid, contribution, psid) ==
  [player_id |-> p, round_type |-> type, status |-> "active", cost |-> cost,
   expires_at |-> now + seconds, prompt_round_id |-> prid, word |-> "",
   system_contribution |-> contribution, phraseset_id |-> psid]

RoundIds == 1..Len(rounds)
PhrasesetIds == 1..Len(phrasesets)
VoteIds == 1..Len(votes)

\* queue_client.length / QueueService.get_copy_cost, on a queue value q
is_copy_discount_active(q) == Len(q) > copy_discount_threshold

get_copy_cost(q) ==
  IF is_copy_discount_active(q) THEN copy_cost_discount ELSE copy_cost_normal

\* str.strip and str.upper on the strings the requests carry
Strip(s) == IF s = " w2" THEN "w2" ELSE s

Upper(s) ==
  CASE s = "w1" -> "W1"
    [] s = "w2" -> "W2"
    [] s = "w3" -> "W3"
    [] s = " w2" -> " W2"
    [] s = "zz" -> "ZZ"
    [] OTHER -> s

\* WordValidator.validate: "" when the word is valid
validate(word) ==
  IF Upper(Strip(word)) \in Words THEN "" ELSE "invalid_word"

\* WordValidator.validate_copy
validate_copy(word, original) ==
  IF validate(word) # "" THEN validate(word)
  ELSE IF Upper(Strip(word)) = Upper(Strip(original)) THEN "duplicate"
  ELSE ""

\* a cutoff without the grace period
NoGrace(r) == rounds[r].expires_at

\* the round's grace cutoff, as computed by the submit handlers and by
\* get_current_round
grace_cutoff(r) == rounds[r].expires_at + grace_period_seconds

PastGrace(r) == now > grace_cutoff(r)

\* PlayerService.get_outstanding_prompts_count
get_outstanding_prompts_count(p) ==
  Cardinality({ps \in PhrasesetIds :
     /\ rounds[phrasesets[ps].prompt_round_id].player_id = p
     /\ rounds[phrasesets[ps].prompt_round_id].round_type = "prompt"
     /\ rounds[phrasesets[ps].prompt_round_id].status = "submitted"
     /\ phrasesets[ps].status \in {"open", "closing"}})

\* PlayerService.can_start_prompt_round: "" when the player may start
can_start_prompt_round(p) ==
  IF balance[p] < prompt_cost THEN "insufficient_balance"
  ELSE IF active_round_id[p] # Null THEN "already_in_round"
  ELSE IF get_outstanding_prompts_count(p) >= max_outstanding_prompts
       THEN "max_outstanding_prompts"
  ELSE ""

\* PlayerService.can_start_copy_round
can_start_copy_round(p) ==
  IF balance[p] < get_copy_cost(queue) THEN "insufficient_balance"
  ELSE IF active_round_id[p] # Null THEN "already_in_round"
  ELSE IF Len(queue) = 0 THEN "no_prompts_available"
  ELSE ""

PendingStarts ==
  Cardinality({i \in 1..Len(pending) :
                 pending[i].op \in {"start_prompt", "start_copy"}})

\* the rounds created since the clock read StartTime
RoundsStarted ==
  Cardinality({r \in RoundIds : rounds[r].expires_at > StartTime})

\* -------------------------------------------------- POST /rounds/prompt
RequestStartPrompt(p) ==
  /\ Len(pending) < MaxPending
  /\ RoundsStarted + PendingStarts < MaxRounds
  /\ IF can_start_prompt_round(p) # ""
     THEN /\ response' = Resp("start_prompt", p, can_start_prompt_round(p))
          /\ UNCHANGED pending
     ELSE /\ pending' = Append(pending, Req("start_prompt", p))
          /\ response' = NoResponse
  /\ UNCHANGED <<now, balance, active_round_id, last_login_date, journal,
                 rounds, queue, abandoned, phrasesets, votes, result_views>>
  /\ UNCHANGED <<memory_hits, checked>>

\* RoundService.start_prompt_round
ExecStartPrompt(i) ==
  /\ i \in 1..Len(pending)
  /\ pending[i].op = "start_prompt"
  /\ pending' = RemoveAt(pending, i)
  /\ LET p == pending[i].player IN
     IF InsufficientBalance(Ledger, p, -prompt_cost)
     THEN /\ response' = Resp("start_prompt", p, "error_500")
          /\ UNCHANGED <<balance, journal, rounds, active_round_id>>
     ELSE LET L == create_transaction(Ledger, p, -prompt_cost,
                                      "prompt_entry", Null) IN
          /\ balance' = L.bal
          /\ journal' = L.jr
          /\ rounds' = Append(rounds, NewRound(p, "prompt", prompt_cost,
                                 prompt_round_seconds, Null, 0, Null))
          /\ active_round_id' = [active_round_id EXCEPT ![p] = Len(rounds) + 1]
          /\ response' = Resp("start_prompt", p, "ok")
  /\ UNCHANGED <<now, last_login_date, queue, abandoned, phrasesets, votes,
                 result_views>>
  /\ UNCHANGED <<memory_hits, checked>>

\* ---------------------------------------------------- POST /rounds/copy
RequestStartCopy(p) ==
  /\ Len(pending) < MaxPending
  /\ RoundsStarted + PendingStarts < MaxRounds
  /\ IF can_start_copy_round(p) # ""
     THEN /\ response' = Resp("start_copy", p, can_start_copy_round(p))
          /\ UNCHANGED pending
     ELSE /\ pending' = Append(pending, Req("start_copy", p))
          /\ response' = NoResponse
  /\ UNCHANGED <<now, balance, active_round_id, last_login_date, journal,
                 rounds, queue, abandoned, phrasesets, votes, result_views>>
  /\ UNCHANGED <<memory_hits, checked>>

InCooldown(p, prid) ==
  \E rec \in abandoned :
     /\ rec.player_id = p
     /\ rec.prompt_round_id = prid
     /\ rec.abandoned_at > now - abandon_cooldown_seconds

\* RoundService.start_copy_round
ExecStartCopy(i) ==
  /\ i \in 1..Len(pending)
  /\ pending[i].op = "start_copy"
  /\ pending' = RemoveAt(pending, i)
  /\ LET p == pending[i].player IN
     IF queue = <<>>
     THEN /\ response' = Resp("start_copy", p, "no_prompts_available")
          /\ UNCHANGED <<balance, journal, rounds, active_round_id, queue>>
     ELSE
       LET prid == Head(queue)
           popped == Tail(queue)
           copy_cost == get_copy_cost(popped)
           contribution == IF copy_cost = copy_cost_discount
                           THEN copy_cost_normal - copy_cost ELSE 0
       IN
       IF rounds[prid].player_id = p
       THEN /\ queue' = Append(popped, prid)
            /\ response' = Resp("start_copy", p, "own_prompt")
            /\ UNCHANGED <<balance, journal, rounds, active_round_id>>
       ELSE IF InCooldown(p, prid)
       THEN /\ queue' = Append(popped, prid)
            /\ response' = Resp("start_copy", p, "abandoned_cooldown")
            /\ UNCHANGED <<balance, journal, rounds, active_round_id>>
       ELSE IF InsufficientBalance(Ledger, p, -copy_cost)
       THEN /\ queue' = popped
            /\ response' = Resp("start_copy", p, "insufficient_balance")
            /\ UNCHANGED <<balance, journal, rounds, active_round_id>>
       ELSE LET L == create_transaction(Ledger, p, -copy_cost,
                                        "copy_entry", Null) IN
            /\ queue' = popped
            /\ balance' = L.bal
            /\ journal' = L.jr
            /\ rounds' = Append(rounds, NewRound(p, "copy", copy_cost,
                                   copy_round_seconds, prid, contribution, Null))
            /\ active_round_id' = [active_round_id EXCEPT ![p] = Len(rounds) + 1]
            /\ response' = [Resp("start_copy", p, "ok") EXCEPT
                              !.id = Len(rounds) + 1,
                              !.amount = copy_cost,
                              !.flag = is_copy_discount_active(popped)]
  /\ UNCHANGED <<now, last_login_date, abandoned, phrasesets, votes,
                 result_views>>
  /\ UNCHANGED <<memory_hits, checked>>

\* ------------------------------------------- POST /rounds/{round_id}/submit
\* RoundService.submit_prompt_word, reached through the router's submit_word
SubmitPromptWord(p, r, word) ==
  /\ r \in RoundIds
  /\ rounds[r].player_id = p
  /\ rounds[r].round_type = "prompt"
  /\ IF rounds[r].status # "active"
     THEN /\ response' = Resp("submit_prompt", p, "error_500")
          /\ UNCHANGED <<rounds, active_round_id, queue>>
     ELSE IF PastGrace(r)
     THEN /\ response' = Resp("submit_prompt", p, "expired")
          /\ UNCHANGED <<rounds, active_round_id, queue>>
     ELSE IF validate(word) # ""
     THEN /\ response' = Resp("submit_prompt", p, "invalid_word")
          /\ UNCHANGED <<rounds, active_round_id, queue>>
     ELSE /\ rounds' = [rounds EXCEPT ![r].word = Upper(word),
                                      ![r].status = "submitted"]
          /\ active_round_id' = [active_round_id EXCEPT ![p] = Null]
          /\ queue' = Append(queue, r)
          /\ response' = Resp("submit_prompt", p, "ok")
  /\ UNCHANGED <<now, balance, last_login_date, journal, abandoned,
                 phrasesets, votes, result_views, pending>>
  /\ UNCHANGED <<memory_hits, checked>>

\* the submitted copy rounds of a prompt in table rs, in round_id order
SubmittedCopies(rs, prid) ==
  {c \in 1..Len(rs) : /\ rs[c].prompt_round_id = prid
                      /\ rs[c].round_type = "copy"
                      /\ rs[c].status = "submitted"}

Lowest(S) == CHOOSE x \in S : \A y \in S : x <= y

\* RoundService._check_and_create_wordset on the rounds table rs: the
\* phrasesets table afterwards
check_and_create_wordset(rs, prid) ==
  IF Cardinality(SubmittedCopies(rs, prid)) >= 2
  THEN LET copy1 == Lowest(SubmittedCopies(rs, prid))
           copy2 == Lowest(SubmittedCopies(rs, prid) \ {copy1})
       IN Append(phrasesets,
            [prompt_round_id |-> prid,
             copy_round_1_id |-> copy1,
             copy_round_2_id |-> copy2,
             original_word |-> rs[prid].word,
             copy_word_1 |-> rs[copy1].word,
             copy_word_2 |-> rs[copy2].word,
             status |-> "open",
             vote_count |-> 0,
             third_vote_at |-> NoTime,
             fifth_vote_at |-> NoTime,
             closes_at |-> NoTime,
             finalized_at |-> NoTime,
             total_pool |-> wordset_prize_pool,
             system_contribution |-> rs[copy1].system_contribution
                                     + rs[copy2].system_contribution])
  ELSE phrasesets

\* RoundService.submit_copy_word
SubmitCopyWord(p, r, word) ==
  /\ r \in RoundIds
  /\ rounds[r].player_id = p
  /\ rounds[r].round_type = "copy"
  /\ IF rounds[r].status # "active"
     THEN /\ response' = Resp("submit_copy", p, "error_500")
          /\ UNCHANGED <<rounds, active_round_id, phrasesets>>
     ELSE IF PastGrace(r)
     THEN /\ response' = Resp("submit_copy", p, "expired")
          /\ UNCHANGED <<rounds, active_round_id, phrasesets>>
     ELSE IF validate_copy(word, rounds[rounds[r].prompt_round_id].word) # ""
     THEN /\ response' = Resp("submit_copy", p,
                 validate_copy(word, rounds[rounds[r].prompt_round_id].word))
          /\ UNCHANGED <<rounds, active_round_id, phrasesets>>
     ELSE /\ rounds' = [rounds EXCEPT ![r].word = Upper(word),
                                      ![r].status = "submitted"]
          /\ active_round_id' = [active_round_id EXCEPT ![p] = Null]
          /\ phrasesets' = check_and_create_wordset(rounds',
                                                    rounds[r].prompt_round_id)
          /\ response' = Resp("submit_copy", p, "ok")
  /\ UNCHANGED <<now, balance, last_login_date, journal, queue, abandoned,
                 votes, result_views, pending>>
  /\ UNCHANGED <<memory_hits, checked>>

\* ------------------------------------------------ GET /player/current-round
\* The router part of get_current_round.  When the round is past its grace
\* cutoff the handler goes on to handle_timeout, which works on the Round
\* and Player objects this part loaded into the session.
RequestGetCurrentRound(p) ==
  /\ LET r == active_round_id[p] IN
     IF r = Null
     THEN /\ response' = Resp("current_round", p, "none")
          /\ UNCHANGED <<active_round_id, pending>>
     ELSE IF rounds[r].status # "active"
     THEN /\ active_round_id' = [active_round_id EXCEPT ![p] = Null]
          /\ response' = Resp("current_round", p, "none")
          /\ UNCHANGED pending
     ELSE IF PastGrace(r)
     THEN /\ Len(pending) < MaxPending
          /\ pending' = Append(pending,
                               [Req("timeout", p) EXCEPT !.round = r])
          /\ response' = NoResponse
          /\ UNCHANGED active_round_id
     ELSE /\ response' = Resp("current_round", p, "active")
          /\ UNCHANGED <<active_round_id, pending>>
  /\ UNCHANGED <<now, balance, last_login_date, journal, rounds, queue,
                 abandoned, phrasesets, votes, result_views>>
  /\ UNCHANGED <<memory_hits, checked>>

\* the refund of RoundService.handle_timeout
refund_amount(cost) == cost - (cost \div 10)

HasAbandoned(p, prid) ==
  \E rec \in abandoned : rec.player_id = p /\ rec.prompt_round_id = prid

\* RoundService.handle_timeout.  The refund is committed by
\* create_transaction together with the status change; the abandonment
\* record and the cleared pointer are committed at the end, and that commit
\* fails on the (player_id, prompt_round_id) unique constraint when the
\* record already exists.
ExecTimeout(i) ==
  /\ i \in 1..Len(pending)
  /\ pending[i].op = "timeout"
  /\ pending' = RemoveAt(pending, i)
  /\ LET r == pending[i].round
         p == rounds[r].player_id
     IN
     IF now <= rounds[r].expires_at
     THEN /\ response' = Resp("current_round", p, "none")
          /\ UNCHANGED <<rounds, balance, journal, queue, abandoned,
                         active_round_id>>
     ELSE IF rounds[r].round_type = "prompt"
     THEN LET L == create_transaction(Ledger, p, refund_amount(prompt_cost),
                                      "refund", r) IN
          /\ rounds' = [rounds EXCEPT ![r].status = "expired"]
          /\ balance' = L.bal
          /\ journal' = L.jr
          /\ active_round_id' = [active_round_id EXCEPT ![p] = Null]
          /\ response' = Resp("current_round", p, "none")
          /\ UNCHANGED <<queue, abandoned>>
     ELSE IF rounds[r].round_type = "copy"
     THEN LET L == create_transaction(Ledger, p,
                                      refund_amount(rounds[r].cost),
                                      "refund", r) IN
          /\ rounds' = [rounds EXCEPT ![r].status = "abandoned"]
          /\ balance' = L.bal
          /\ journal' = L.jr
          /\ queue' = Append(queue, rounds[r].prompt_round_id)
          /\ IF HasAbandoned(p, rounds[r].prompt_round_id)
             THEN /\ response' = Resp("current_round", p, "error_500")
                  /\ UNCHANGED <<abandoned, active_round_id>>
             ELSE /\ abandoned' = abandoned \cup
                       {[player_id |-> p,
                         prompt_round_id |-> rounds[r].prompt_round_id,
                         abandoned_at |-> now]}
                  /\ active_round_id' = [active_round_id EXCEPT ![p] = Null]
                  /\ response' = Resp("current_round", p, "none")
     ELSE /\ active_round_id' = [active_round_id EXCEPT ![p] = Null]
          /\ response' = Resp("current_round", p, "none")
          /\ UNCHANGED <<rounds, balance, journal, queue, abandoned>>
  /\ UNCHANGED <<now, last_login_date, phrasesets, votes, result_views>>
  /\ UNCHANGED <<memory_hits, checked>>

\* -------------------------------------------- POST /player/claim-daily-bonus
\* PlayerService.is_daily_bonus_available
is_daily_bonus_available(p) ==
  /\ Date(created_at(p)) # Date(now)
  /\ last_login_date[p] < Date(now)

\* PlayerService.claim_daily_bonus
ClaimDailyBonus(p) ==
  /\ IF ~is_daily_bonus_available(p)
     THEN /\ response' = Resp("daily_bonus", p, "not_available")
          /\ UNCHANGED <<last_login_date, balance, journal>>
     ELSE LET L == create_transaction(Ledger, p, daily_bonus_amount,
                                      "daily_bonus", Date(now)) IN
          /\ last_login_date' = [last_login_date EXCEPT ![p] = Date(now)]
          /\ balance' = L.bal
          /\ journal' = L.jr
          /\ response' = Resp("daily_bonus", p, "ok")
  /\ UNCHANGED <<now, active_round_id, rounds, queue, abandoned, phrasesets,
                 votes, result_views, pending>>
  /\ UNCHANGED <<memory_hits, checked>>

\* ------------------------------------------------------------------- clock
\* The instants at which some comparison of the code with the clock changes
\* its outcome: a round's grace cutoff and the first instant after it, the
\* end of a closing window, the end of a third-vote window.
Deadlines ==
  {grace_cutoff(r) : r \in {x \in RoundIds : rounds[x].status = "active"}}
  \cup {grace_cutoff(r) + 1 : r \in {x \in RoundIds : rounds[x].status = "active"}}
  \cup {phrasesets[ps].fifth_vote_at + closing_window_seconds :
          ps \in {x \in PhrasesetIds : phrasesets[x].fifth_vote_at # NoTime}}
  \cup {phrasesets[ps].third_vote_at + third_vote_window_seconds :
          ps \in {x \in PhrasesetIds : phrasesets[x].third_vote_at # NoTime}}

\* Time passes between requests: a request that has passed its router part
\* runs its service part before the next deadline.
Tick(limit) ==
  /\ pending = <<>>
  /\ \E t \in Deadlines : t > now /\ t <= limit /\ now' = t
  /\ response' = NoResponse
  /\ UNCHANGED <<balance, active_round_id, last_login_date, journal, rounds,
                 queue, abandoned, phrasesets, votes, result_views, pending>>
  /\ UNCHANGED <<memory_hits, checked>>

\* ------------------------------------------------ the round engine (Spec)
\* The entries a player's journal holds after k earlier prompt rounds that
\* were submitted and paid nothing back.
RECURSIVE History(_)
History(k) ==
  IF k = 0 THEN <<>>
  ELSE Append(History(k - 1),
              [amount |-> -prompt_cost, type |-> "prompt_entry",
               reference_id |-> Null,
               balance_after |-> starting_balance - k * prompt_cost])

\* earlier prompt rounds of each player: b is down to its last 100
InitSpent(p) == IF p = "b" THEN 9 ELSE 0

PromptInputs == {"w1", BadWord}
CopyInputs == {"w1", "w2", BadWord}

Init ==
  /\ now = StartTime
  /\ balance = [p \in Players |-> starting_balance - InitSpent(p) * prompt_cost]
  /\ active_round_id = [p \in Players |-> Null]
  /\ last_login_date = [p \in Players |-> Date(created_at(p))]
  /\ journal = [p \in Players |-> History(InitSpent(p))]
  /\ rounds = <<>>
  /\ queue = <<>>
  /\ abandoned = {}
  /\ phrasesets = <<>>
  /\ votes = <<>>
  /\ result_views = {}
  /\ pending = <<>>
  /\ response = NoResponse
  /\ memory_hits = NoHits
  /\ checked = NoCheck

Next ==
  \/ \E p \in RoundPlayers : RequestStartPrompt(p)
  \/ \E i \in 1..MaxPending : ExecStartPrompt(i)
  \/ \E p \in RoundPlayers : RequestStartCopy(p)
  \/ \E i \in 1..MaxPending : ExecStartCopy(i)
  \/ \E p \in RoundPlayers, r \in 1..MaxRounds, w \in PromptInputs :
        SubmitPromptWord(p, r, w)
  \/ \E p \in RoundPlayers, r \in 1..MaxRounds, w \in CopyInputs :
        SubmitCopyWord(p, r, w)
  \/ \E p \in RoundPlayers : RequestGetCurrentRound(p)
  \/ \E i \in 1..MaxPending : ExecTimeout(i)
  \/ \E p \in RoundPlayers : ClaimDailyBonus(p)
  \/ Tick(MaxTime)

Spec == Init /\ [][Next]_vars

\* ================================================================= voting
\* an availability filter that has lost its contributor exclusion
NoContributors(ps) == {}

Contributors(ps) ==
  {rounds[phrasesets[ps].prompt_round_id].player_id,
   rounds[phrasesets[ps].copy_round_1_id].player_id,
   rounds[phrasesets[ps].copy_round_2_id].player_id}

\* a submit_vote that has lost its existing-vote query
HasVotedUnchecked(p, ps) == FALSE

\* the existing-vote query of submit_vote and of the availability filter
HasVoted(p, ps) ==
  \E v \in VoteIds : votes[v].player_id = p /\ votes[v].phraseset_id = ps

\* VoteService._load_available_wordsets_for_player
load_available_wordsets_for_player(p) ==
  {ps \in PhrasesetIds :
     /\ phrasesets[ps].status \in {"open", "closing"}
     /\ p \notin Contributors(ps)
     /\ ~HasVoted(p, ps)}

\* a selection that has lost its priorities: any available phraseset
AnyAvailable(p) == load_available_wordsets_for_player(p)

\* VoteService.get_available_wordset_for_player: the phrasesets the call may
\* return (several when the order of equal keys or random.choice decides)
get_available_wordset_for_player(p) ==
  LET available == load_available_wordsets_for_player(p)
      priority1 == {ps \in available : /\ phrasesets[ps].vote_count >= 5
                                        /\ phrasesets[ps].fifth_vote_at # NoTime}
      priority2 == {ps \in available : /\ phrasesets[ps].vote_count >= 3
                                        /\ phrasesets[ps].vote_count < 5
                                        /\ phrasesets[ps].third_vote_at # NoTime}
      priority3 == {ps \in available : phrasesets[ps].vote_count < 3}
  IN IF priority1 # {}
     THEN {ps \in priority1 : \A o \in priority1 :
             phrasesets[ps].fifth_vote_at <= phrasesets[o].fifth_vote_at}
     ELSE IF priority2 # {}
     THEN {ps \in priority2 : \A o \in priority2 :
             phrasesets[ps].third_vote_at <= phrasesets[o].third_vote_at}
     ELSE IF priority3 # {} THEN priority3
     ELSE available

\* PlayerService.can_start_vote_round
can_start_vote_round(p) ==
  IF balance[p] < vote_cost THEN "insufficient_balance"
  ELSE IF active_round_id[p] # Null THEN "already_in_round"
  ELSE IF load_available_wordsets_for_player(p) = {}
       THEN "no_wordsets_available"
  ELSE ""

VoteRoundsStarted ==
  Cardinality({r \in RoundIds : rounds[r].player_id \in Voters})
  + Cardinality({i \in 1..Len(pending) : pending[i].op = "start_vote"})

\* ------------------------------------------------------ POST /rounds/vote
RequestStartVote(p) ==
  /\ Len(pending) < MaxPending
  /\ VoteRoundsStarted < MaxVoteRounds
  /\ IF can_start_vote_round(p) # ""
     THEN /\ response' = Resp("start_vote", p, can_start_vote_round(p))
          /\ UNCHANGED pending
     ELSE /\ pending' = Append(pending, Req("start_vote", p))
          /\ response' = NoResponse
  /\ UNCHANGED <<now, balance, active_round_id, last_login_date, journal,
                 rounds, queue, abandoned, phrasesets, votes, result_views>>
  /\ UNCHANGED <<memory_hits, checked>>

\* the advisory lock start_vote_round:{player_id} is held
StartVoteLockHeld(p) ==
  \E j \in 1..Len(pending) : /\ pending[j].op = "start_vote"
                             /\ pending[j].player = p
                             /\ pending[j].stage = "locked"

\* VoteService.start_vote_round up to the read of the balance done by
\* create_transaction(skip_lock=True, auto_commit=False) under the lock
\* start_vote_round:{player_id}
ExecStartVoteLock(i) ==
  /\ i \in 1..Len(pending)
  /\ pending[i].op = "start_vote"
  /\ pending[i].stage = "checked"
  /\ LET p == pending[i].player IN
     IF get_available_wordset_for_player(p) = {}
     THEN /\ pending' = RemoveAt(pending, i)
          /\ response' = Resp("start_vote", p, "no_wordsets_available")
     ELSE /\ ~StartVoteLockHeld(p)
          /\ IF InsufficientBalance(Ledger, p, -vote_cost)
             THEN /\ pending' = RemoveAt(pending, i)
                  /\ response' = Resp("start_vote", p, "error_500")
             ELSE /\ \E ps \in get_available_wordset_for_player(p) :
                       pending' = [pending EXCEPT
                                     ![i].stage = "locked",
                                     ![i].phraseset = ps,
                                     ![i].new_balance = balance[p] - vote_cost]
                  /\ response' = NoResponse
  /\ UNCHANGED <<now, balance, active_round_id, last_login_date, journal,
                 rounds, queue, abandoned, phrasesets, votes, result_views>>
  /\ UNCHANGED <<memory_hits, checked>>

\* VoteService.start_vote_round from the assignment of the balance to the
\* commit that ends the lock
ExecStartVoteCommit(i) ==
  /\ i \in 1..Len(pending)
  /\ pending[i].op = "start_vote"
  /\ pending[i].stage = "locked"
  /\ pending' = RemoveAt(pending, i)
  /\ LET p == pending[i].player IN
     /\ balance' = [balance EXCEPT ![p] = pending[i].new_balance]
     /\ journal' = [journal EXCEPT ![p] =
                      Append(@, [amount |-> -vote_cost, type |-> "vote_entry",
                                 reference_id |-> Null,
                                 balance_after |-> pending[i].new_balance])]
     /\ rounds' = Append(rounds, NewRound(p, "vote", vote_cost,
                            vote_round_seconds, Null, 0, pending[i].phraseset))
     /\ active_round_id' = [active_round_id EXCEPT ![p] = Len(rounds) + 1]
     /\ response' = Resp("start_vote", p, "ok")
  /\ UNCHANGED <<now, last_login_date, queue, abandoned, phrasesets, votes,
                 result_views>>
  /\ UNCHANGED <<memory_hits, checked>>

\* ------------------------------------- POST /phrasesets/{phraseset_id}/vote
\* The router part of submit_vote: it loads the player's active round and
\* the phraseset; the service works on these loaded objects.
RespVote(p, ps, code) == [Resp("submit_vote", p, code) EXCEPT !.id = ps]

RequestSubmitVote(p, ps, phrase) ==
  /\ LET r == active_round_id[p] IN
     IF r = Null
     THEN /\ response' = RespVote(p, ps, "no_active_vote_round")
          /\ UNCHANGED pending
     ELSE IF rounds[r].round_type # "vote"
     THEN /\ response' = RespVote(p, ps, "not_in_vote_round")
          /\ UNCHANGED pending
     ELSE IF rounds[r].phraseset_id # ps
     THEN /\ response' = RespVote(p, ps, "phraseset_mismatch")
          /\ UNCHANGED pending
     ELSE IF ps \notin PhrasesetIds
     THEN /\ response' = RespVote(p, ps, "phraseset_not_found")
          /\ UNCHANGED pending
     ELSE /\ Len(pending) < MaxPending
          /\ pending' = Append(pending,
               [Req("submit_vote", p) EXCEPT
                  !.round = r,
                  !.phraseset = ps,
                  !.phrase = phrase,
                  !.snap = [vote_count |-> phrasesets[ps].vote_count,
                            third_vote_at |-> phrasesets[ps].third_vote_at,
                            fifth_vote_at |-> phrasesets[ps].fifth_vote_at]])
          /\ response' = NoResponse
  /\ UNCHANGED <<now, balance, active_round_id, last_login_date, journal,
                 rounds, queue, abandoned, phrasesets, votes, result_views>>
  /\ UNCHANGED <<memory_hits, checked>>

CountVotes(vs, ps, phrase) ==
  Cardinality({v \in 1..Len(vs) : /\ vs[v].phraseset_id = ps
                                  /\ vs[v].voted_phrase = phrase})

\* a scoring that splits the pool evenly whatever the points
EvenSplit(vs, ps) ==
  LET prize_pool == phrasesets[ps].total_pool
                    - (CountVotes(vs, ps, phrasesets[ps].original_word)
                       * vote_payout_correct)
  IN [original |-> prize_pool \div 3, copy1 |-> prize_pool \div 3,
      copy2 |-> prize_pool \div 3]

\* ScoringService.calculate_payouts on the votes table vs
calculate_payouts(vs, ps) ==
  LET original_votes == CountVotes(vs, ps, phrasesets[ps].original_word)
      copy1_votes == CountVotes(vs, ps, phrasesets[ps].copy_word_1)
      copy2_votes == CountVotes(vs, ps, phrasesets[ps].copy_word_2)
      original_points == original_votes * 1
      copy1_points == copy1_votes * 2
      copy2_points == copy2_votes * 2
      total_points == original_points + copy1_points + copy2_points
      prize_pool == phrasesets[ps].total_pool
                    - (original_votes * vote_payout_correct)
  IN IF total_points = 0
     THEN [original |-> prize_pool \div 3,
           copy1 |-> prize_pool \div 3,
           copy2 |-> prize_pool \div 3]
     ELSE [original |-> (original_points * prize_pool) \div total_points,
           copy1 |-> (copy1_points * prize_pool) \div total_points,
           copy2 |-> (copy2_points * prize_pool) \div total_points]

\* one iteration of the loop of _finalize_wordset
PayPrize(L, p, payout, ps) ==
  IF payout > 0 THEN create_transaction(L, p, payout, "prize_payout", ps)
  ELSE L

\* VoteService._finalize_wordset: the ledger after the three prize payouts
finalize_wordset(L, vs, ps) ==
  LET payouts == calculate_payouts(vs, ps)
      L1 == PayPrize(L, rounds[phrasesets[ps].prompt_round_id].player_id,
                     payouts.original, ps)
      L2 == PayPrize(L1, rounds[phrasesets[ps].copy_round_1_id].player_id,
                     payouts.copy1, ps)
  IN PayPrize(L2, rounds[phrasesets[ps].copy_round_2_id].player_id,
              payouts.copy2, ps)

\* VoteService._check_and_finalize: should_finalize, on the fields of the
\* phraseset object the handler holds
should_finalize(vote_count, third_vote_at, fifth_vote_at) ==
  IF vote_count >= max_votes THEN TRUE
  ELSE IF vote_count >= 5 /\ fifth_vote_at # NoTime
       THEN now - fifth_vote_at >= closing_window_seconds
  ELSE IF vote_count >= 3 /\ third_vote_at # NoTime /\ fifth_vote_at = NoTime
       THEN now - third_vote_at >= third_vote_window_seconds
  ELSE FALSE

\* VoteService._update_vote_timeline: the n-th vote is marked when the
\* handler's object counts n votes and carries no mark yet
MarksVote(vote_count, n, mark) == vote_count = n /\ mark = NoTime

\* VoteService.submit_vote with _update_vote_timeline, _check_and_finalize
\* and _finalize_wordset.  The phraseset object is the one the router
\* loaded (pending[i].snap); the commit writes the attributes the handler
\* assigned and leaves the other columns of the row as they are.
ExecSubmitVote(i) ==
  /\ i \in 1..Len(pending)
  /\ pending[i].op = "submit_vote"
  /\ pending' = RemoveAt(pending, i)
  /\ LET p == pending[i].player
         r == pending[i].round
         ps == pending[i].phraseset
         snap == pending[i].snap
         phrase == Upper(Strip(pending[i].phrase))
     IN
     IF PastGrace(r)
     THEN /\ response' = RespVote(p, ps, "expired")
          /\ UNCHANGED <<balance, journal, rounds, active_round_id,
                         phrasesets, votes>>
     ELSE IF phrase \notin {phrasesets[ps].original_word,
                            phrasesets[ps].copy_word_1,
                            phrasesets[ps].copy_word_2}
     THEN /\ response' = RespVote(p, ps, "invalid_choice")
          /\ UNCHANGED <<balance, journal, rounds, active_round_id,
                         phrasesets, votes>>
     ELSE IF HasVoted(p, ps)
     THEN /\ response' = RespVote(p, ps, "already_voted")
          /\ UNCHANGED <<balance, journal, rounds, active_round_id,
                         phrasesets, votes>>
     ELSE
       LET correct == phrase = phrasesets[ps].original_word
           payout == IF correct THEN vote_payout_correct ELSE 0
           vote_id == Len(votes) + 1
           newvotes == Append(votes, [phraseset_id |-> ps, player_id |-> p,
                                      voted_phrase |-> phrase,
                                      correct |-> correct, payout |-> payout])
           L0 == IF correct
                 THEN create_transaction(Ledger, p, payout, "vote_payout",
                                         vote_id)
                 ELSE Ledger
           vote_count == snap.vote_count + 1
           marks3 == MarksVote(vote_count, 3, snap.third_vote_at)
           marks5 == MarksVote(vote_count, 5, snap.fifth_vote_at)
           third == IF marks3 THEN now ELSE snap.third_vote_at
           fifth == IF marks5 THEN now ELSE snap.fifth_vote_at
           fin == should_finalize(vote_count, third, fifth)
           L1 == IF fin THEN finalize_wordset(L0, newvotes, ps) ELSE L0
       IN
       /\ votes' = newvotes
       /\ rounds' = [rounds EXCEPT ![r].status = "submitted"]
       /\ active_round_id' = [active_round_id EXCEPT ![p] = Null]
       /\ phrasesets' = [phrasesets EXCEPT
            ![ps].vote_count = vote_count,
            ![ps].third_vote_at = IF marks3 THEN now ELSE @,
            ![ps].fifth_vote_at = IF marks5 THEN now ELSE @,
            ![ps].closes_at = IF marks5 THEN now + closing_window_seconds
                              ELSE @,
            ![ps].status = IF fin THEN "finalized"
                           ELSE IF marks5 THEN "closing" ELSE @,
            ![ps].finalized_at = IF fin THEN now ELSE @]
       /\ balance' = L1.bal
       /\ journal' = L1.jr
       /\ response' = [RespVote(p, ps, "ok") EXCEPT
                         !.amount = payout, !.flag = correct]
  /\ UNCHANGED <<now, last_login_date, queue, abandoned, result_views>>
  /\ UNCHANGED <<memory_hits, checked>>

\* ------------------------------------------------ result views and claims
HasView(p, ps) ==
  \E rv \in result_views : rv.player_id = p /\ rv.phraseset_id = ps

View(p, ps) ==
  CHOOSE rv \in result_views : rv.player_id = p /\ rv.phraseset_id = ps

\* PhrasesetService._extract_player_payout / the loop of
\* get_phraseset_results: the payout of the first role the player holds
extract_player_payout(payouts, p, ps) ==
  IF rounds[phrasesets[ps].prompt_round_id].player_id = p
  THEN payouts.original
  ELSE IF rounds[phrasesets[ps].copy_round_1_id].player_id = p
  THEN payouts.copy1
  ELSE payouts.copy2

\* a claim_prize that stamps the view and forgets the claim flag
mark_viewed_only(rv) ==
  [rv EXCEPT !.first_viewed_at = IF @ = NoTime THEN now ELSE @]

\* what claim_prize writes to the result view it loaded or created
mark_claimed(rv) ==
  [rv EXCEPT !.first_viewed_at = IF @ = NoTime THEN now ELSE @,
             !.payout_claimed = TRUE,
             !.payout_claimed_at = IF rv.payout_claimed THEN @ ELSE now]

\* PhrasesetService.claim_prize with _load_result_view(create_if_missing)
ClaimPrize(p, ps) ==
  /\ ps \in PhrasesetIds
  /\ IF phrasesets[ps].status # "finalized"
     THEN /\ response' = Resp("claim_prize", p, "not_finalized")
          /\ UNCHANGED result_views
     ELSE IF p \notin Contributors(ps)
     THEN /\ response' = Resp("claim_prize", p, "not_contributor")
          /\ UNCHANGED result_views
     ELSE
       LET rv == IF HasView(p, ps) THEN View(p, ps)
                 ELSE [player_id |-> p, phraseset_id |-> ps,
                       payout_amount |->
                         extract_player_payout(calculate_payouts(votes, ps),
                                               p, ps),
                       payout_claimed |-> FALSE,
                       first_viewed_at |-> NoTime,
                       payout_claimed_at |-> NoTime]
           already_claimed == rv.payout_claimed
       IN
       /\ result_views' = (result_views \ {rv}) \cup {mark_claimed(rv)}
       /\ response' = RespClaim(p, ps, rv.payout_amount, already_claimed)
  /\ UNCHANGED <<now, balance, active_round_id, last_login_date, journal,
                 rounds, queue, abandoned, phrasesets, votes, pending>>
  /\ UNCHANGED <<memory_hits, checked>>

\* VoteService.get_phraseset_results: the first view of the results creates
\* the result view with its collected / claimed flag set
ViewResults(p, ps) ==
  /\ ps \in PhrasesetIds
  /\ IF phrasesets[ps].status # "finalized"
     THEN /\ response' = Resp("results", p, "not_finalized")
          /\ UNCHANGED result_views
     ELSE IF p \notin Contributors(ps)
     THEN /\ response' = Resp("results", p, "not_contributor")
          /\ UNCHANGED result_views
     ELSE /\ result_views' =
               IF HasView(p, ps) THEN result_views
               ELSE result_views \cup
                    {[player_id |-> p, phraseset_id |-> ps,
                      payout_amount |->
                        extract_player_payout(calculate_payouts(votes, ps),
                                              p, ps),
                      payout_claimed |-> TRUE,
                      first_viewed_at |-> NoTime,
                      payout_claimed_at |-> NoTime]}
          /\ response' = Resp("results", p, "ok")
  /\ UNCHANGED <<now, balance, active_round_id, last_login_date, journal,
                 rounds, queue, abandoned, phrasesets, votes, pending>>
  /\ UNCHANGED <<memory_hits, checked>>

\* ------------------------------------------------ the vote engine (SpecVote)
\* The state after a has submitted the prompt W1, b and c have copied it
\* with W2 and W3, the phraseset exists, and the first n of the past
\* voters have voted: u1 for W1, u2 for W2, u3 for W3, u4 for W1, u5 for W2.
PastVoterSeq == <<"u1", "u2", "u3", "u4", "u5">>
SeedPhrase == <<"W1", "W2", "W3", "W1", "W2">>
SeedCounts == {3, 5}

SeedRoundsAt == StartTime - 3600       \* when the seeded rounds were played
SeedThirdVoteAt == StartTime - 550     \* when u3 cast the third vote
SeedFifthVoteAt == StartTime - 30      \* when u5 cast the fifth vote

SeedRound(p, type, cost, prid, word, psid) ==
  [player_id |-> p, round_type |-> type, status |-> "submitted",
   cost |-> cost, expires_at |-> SeedRoundsAt, prompt_round_id |-> prid,
   word |-> word, system_contribution |-> 0, phraseset_id |-> psid]

SeedRounds(n) ==
  <<SeedRound("a", "prompt", prompt_cost, Null, "W1", Null),
    SeedRound("b", "copy", copy_cost_normal, 1, "W2", Null),
    SeedRound("c", "copy", copy_cost_normal, 1, "W3", Null)>>
  \o [k \in 1..n |-> SeedRound(PastVoterSeq[k], "vote", vote_cost, Null, "", 1)]

SeedVotes(n) ==
  [k \in 1..n |-> [phraseset_id |-> 1, player_id |-> PastVoterSeq[k],
                   voted_phrase |-> SeedPhrase[k],
                   correct |-> SeedPhrase[k] = "W1",
                   payout |-> IF SeedPhrase[k] = "W1"
                              THEN vote_payout_correct ELSE 0]]

SeedIndex(p) == CHOOSE k \in 1..Len(PastVoterSeq) : PastVoterSeq[k] = p

SeedJournal(p, n) ==
  IF p = "a"
  THEN <<[amount |-> -prompt_cost, type |-> "prompt_entry",
          reference_id |-> Null,
          balance_after |-> starting_balance - prompt_cost]>>
  ELSE IF p \in {"b", "c"}
  THEN <<[amount |-> -copy_cost_normal, type |-> "copy_entry",
          reference_id |-> Null,
          balance_after |-> starting_balance - copy_cost_normal]>>
  ELSE IF p \in {PastVoterSeq[k] : k \in 1..n} /\ SeedPhrase[SeedIndex(p)] = "W1"
  THEN <<[amount |-> -vote_cost, type |-> "vote_entry",
          reference_id |-> Null,
          balance_after |-> starting_balance - vote_cost],
         [amount |-> vote_payout_correct, type |-> "vote_payout",
          reference_id |-> SeedIndex(p),
          balance_after |-> starting_balance - vote_cost
                            + vote_payout_correct]>>
  ELSE IF p \in {PastVoterSeq[k] : k \in 1..n}
  THEN <<[amount |-> -vote_cost, type |-> "vote_entry",
          reference_id |-> Null,
          balance_after |-> starting_balance - vote_cost]>>
  ELSE <<>>

SeedBalance(p, n) ==
  IF SeedJournal(p, n) = <<>> THEN starting_balance
  ELSE SeedJournal(p, n)[Len(SeedJournal(p, n))].balance_after

SeedPhraseset(n) ==
  [prompt_round_id |-> 1,
   copy_round_1_id |-> 2,
   copy_round_2_id |-> 3,
   original_word |-> "W1",
   copy_word_1 |-> "W2",
   copy_word_2 |-> "W3",
   status |-> IF n >= 5 THEN "closing" ELSE "open",
   vote_count |-> n,
   third_vote_at |-> IF n >= 3 THEN SeedThirdVoteAt ELSE NoTime,
   fifth_vote_at |-> IF n >= 5 THEN SeedFifthVoteAt ELSE NoTime,
   closes_at |-> IF n >= 5 THEN SeedFifthVoteAt + closing_window_seconds
                 ELSE NoTime,
   finalized_at |-> NoTime,
   total_pool |-> wordset_prize_pool,
   system_contribution |-> 0]

InitVote ==
  \E n \in SeedCounts :
    /\ now = StartTime
    /\ balance = [p \in Players |-> SeedBalance(p, n)]
    /\ active_round_id = [p \in Players |-> Null]
    /\ last_login_date = [p \in Players |-> Date(created_at(p))]
    /\ journal = [p \in Players |-> SeedJournal(p, n)]
    /\ rounds = SeedRounds(n)
    /\ queue = <<>>
    /\ abandoned = {}
    /\ phrasesets = <<SeedPhraseset(n)>>
    /\ votes = SeedVotes(n)
    /\ result_views = {}
    /\ pending = <<>>
    /\ response = NoResponse
    /\ memory_hits = NoHits
    /\ checked = NoCheck

VoteInputs == {"w1", "w2"}
ClaimVoteInputs == VoteInputs \cup {BadWord}

NextVote ==
  \/ \E p \in Voters : RequestStartVote(p)
  \/ \E i \in 1..MaxPending : ExecStartVoteLock(i)
  \/ \E i \in 1..MaxPending : ExecStartVoteCommit(i)
  \/ \E p \in Voters, ps \in 1..MaxPhrasesets, phrase \in VoteInputs :
        RequestSubmitVote(p, ps, phrase)
  \/ \E i \in 1..MaxPending : ExecSubmitVote(i)
  \/ \E p \in {"v1"} : RequestGetCurrentRound(p)
  \/ \E i \in 1..MaxPending : ExecTimeout(i)
  \/ Tick(MaxVoteTime)

SpecVote == InitVote /\ [][NextVote]_vars

\* --------------------------------------------- the claim engine (SpecClaim)
\* The state of the vote engine in which five votes are in, the phraseset
\* is closing, and v1 and v2 have each just started a vote round on it:
\* the next vote after the closing window finalizes the phraseset, and the
\* contributors view the results and claim.
ClaimSeed == Len(PastVoterSeq)

VoteEntry ==
  [amount |-> -vote_cost, type |-> "vote_entry", reference_id |-> Null,
   balance_after |-> starting_balance - vote_cost]

InitClaim ==
  /\ now = StartTime
  /\ balance = [p \in Players |-> IF p \in Voters
                                  THEN starting_balance - vote_cost
                                  ELSE SeedBalance(p, ClaimSeed)]
  /\ active_round_id = [p \in Players |->
                          IF p = "v1" THEN Len(SeedRounds(ClaimSeed)) + 1
                          ELSE IF p = "v2" THEN Len(SeedRounds(ClaimSeed)) + 2
                          ELSE Null]
  /\ last_login_date = [p \in Players |-> Date(created_at(p))]
  /\ journal = [p \in Players |-> IF p \in Voters THEN <<VoteEntry>>
                                  ELSE SeedJournal(p, ClaimSeed)]
  /\ rounds = SeedRounds(ClaimSeed)
              \o <<NewRound("v1", "vote", vote_cost, vote_round_seconds,
                            Null, 0, 1),
                   NewRound("v2", "vote", vote_cost, vote_round_seconds,
                            Null, 0, 1)>>
  /\ queue = <<>>
  /\ abandoned = {}
  /\ phrasesets = <<SeedPhraseset(ClaimSeed)>>
  /\ votes = SeedVotes(ClaimSeed)
  /\ result_views = {}
  /\ pending = <<>>
  /\ response = NoResponse
  /\ memory_hits = NoHits
  /\ checked = NoCheck

Claimants == {"a", "b", "v1"}

NextClaim ==
  \/ \E p \in Voters, ps \in 1..MaxPhrasesets, phrase \in ClaimVoteInputs :
        RequestSubmitVote(p, ps, phrase)
  \/ \E i \in 1..MaxPending : ExecSubmitVote(i)
  \/ \E p \in Claimants, ps \in 1..MaxPhrasesets : ClaimPrize(p, ps)
  \/ \E p \in Claimants, ps \in 1..MaxPhrasesets : ViewResults(p, ps)
  \/ Tick(MaxVoteTime)

SpecClaim == InitClaim /\ [][NextClaim]_vars

\* ================================================================== claims
RECURSIVE SumAmounts(_)
SumAmounts(j) ==
  IF j = <<>> THEN 0
  ELSE j[Len(j)].amount + SumAmounts(SubSeq(j, 1, Len(j) - 1))

\* a response that reports a debit refused for insufficient balance
InsufficientRefusal(r) ==
  \/ r.code = "insufficient_balance"
  \/ r.op \in {"start_prompt", "start_vote"} /\ r.code = "error_500"

\* C1: every balance is >= 0 before and after every step, and a step that
\* ends in an insufficient-balance refusal leaves all balances and all
\* journals as they were.
C1_BalanceNonNegative ==
  [][/\ \A p \in Players : balance[p] >= 0 /\ balance'[p] >= 0
     /\ InsufficientRefusal(response')
          => balance' = balance /\ journal' = journal]_vars

\* C1 witness: create_transaction has refused the debit of a prompt round
\* that the router had let through.
C1_Refused ==
  /\ response.op = "start_prompt"
  /\ response.code = "error_500"
  /\ balance[response.player] < prompt_cost

\* C2: every balance is starting_balance plus the sum of the player's
\* transaction amounts, and every balance_after is the running total up to
\* and including its transaction.
C2_JournalConsistency ==
  \A p \in Players :
    /\ balance[p] = starting_balance + SumAmounts(journal[p])
    /\ \A k \in 1..Len(journal[p]) :
         journal[p][k].balance_after
           = starting_balance + SumAmounts(SubSeq(journal[p], 1, k))

ActiveRounds(p) ==
  {r \in RoundIds : rounds[r].player_id = p /\ rounds[r].status = "active"}

\* C3: no player owns more than one round with status active.
C3_SingleActiveRound ==
  \A p \in Players : Cardinality(ActiveRounds(p)) <= 1

PrizePayouts(p, ps) ==
  {k \in 1..Len(journal[p]) : /\ journal[p][k].type = "prize_payout"
                              /\ journal[p][k].reference_id = ps}

\* C4: no contributor ever holds more than one prize_payout transaction
\* that references the same phraseset.
C4_SinglePrizePayout ==
  \A ps \in PhrasesetIds : \A p \in Players :
    Cardinality(PrizePayouts(p, ps)) <= 1

\* C5: a phraseset whose status is finalized keeps that status and its
\* finalized_at in every step.
C5_FinalizationMonotone ==
  [][\A ps \in PhrasesetIds :
       phrasesets[ps].status = "finalized"
         => /\ phrasesets'[ps].status = "finalized"
            /\ phrasesets'[ps].finalized_at = phrasesets[ps].finalized_at]_vars

RECURSIVE PrizeTotal(_, _)
PrizeTotal(S, ps) ==
  IF S = {} THEN 0
  ELSE LET p == CHOOSE x \in S : TRUE
       IN SumAmounts(SelectSeq(journal[p],
                       LAMBDA t : t.type = "prize_payout"
                                  /\ t.reference_id = ps))
          + PrizeTotal(S \ {p}, ps)

CorrectVotes(ps) ==
  Cardinality({v \in VoteIds : votes[v].phraseset_id = ps /\ votes[v].correct})

Paid(ps) ==
  PrizeTotal(Players, ps) + vote_payout_correct * CorrectVotes(ps)

\* C6: once a phraseset has been finalized, the prize payouts written for
\* it plus 5 per correct vote recorded on it never exceed total_pool and
\* fall short of it by at most 2.
C6_PayoutConservation ==
  \A ps \in PhrasesetIds :
    phrasesets[ps].finalized_at # NoTime
      => /\ Paid(ps) <= phrasesets[ps].total_pool
         /\ phrasesets[ps].total_pool - Paid(ps) <= 2

\* the step completes a claim of the prize
ClaimStep == response'.op = "claim_prize" /\ response'.code = "ok"

\* claim_prize has run before for this contributor and phraseset
ClaimedBefore(p, ps) ==
  HasView(p, ps) /\ View(p, ps).first_viewed_at # NoTime

\* the contributor has viewed the results of the phraseset before, without
\* having claimed
ViewedOnly(p, ps) ==
  HasView(p, ps) /\ View(p, ps).first_viewed_at = NoTime

HasPhraseset(r) ==
  \E ps \in PhrasesetIds : phrasesets[ps].prompt_round_id = r

InQueue(r) == \E k \in 1..Len(queue) : queue[k] = r

CopiesOf(r, statuses) ==
  {c \in RoundIds : /\ rounds[c].round_type = "copy"
                    /\ rounds[c].prompt_round_id = r
                    /\ rounds[c].status \in statuses}

SubmittedPrompts ==
  {r \in RoundIds : /\ rounds[r].round_type = "prompt"
                    /\ rounds[r].status = "submitted"}

\* C8: every submitted prompt round without a phraseset is in the prompt
\* queue or leased to an active copy round.
C8_QueueNonLoss ==
  \A r \in SubmittedPrompts :
    ~HasPhraseset(r) => InQueue(r) \/ CopiesOf(r, {"active"}) # {}

\* C9: a submitted prompt that has no phraseset yet and fewer than two
\* copies started or submitted is still in the prompt queue, so that the
\* next copier can take it.
C9_PromptStaysAvailable ==
  \A r \in SubmittedPrompts :
    (~HasPhraseset(r)
       /\ Cardinality(CopiesOf(r, {"active", "submitted"})) < 2)
      => InQueue(r)

VotesOf(p, ps) ==
  {v \in VoteIds : votes[v].player_id = p /\ votes[v].phraseset_id = ps}

VotePayouts(p, ps) ==
  {k \in 1..Len(journal[p]) :
     /\ journal[p][k].type = "vote_payout"
     /\ journal[p][k].reference_id \in VotesOf(p, ps)}

VoteUnique ==
  \A p \in Players : \A ps \in PhrasesetIds :
    /\ Cardinality(VotesOf(p, ps)) <= 1
    /\ Cardinality(VotePayouts(p, ps)) <= 1

\* the step answers a vote submission
VoteStep == response'.op = "submit_vote"

SeedGames == max_outstanding_prompts
SeedBacklog == copy_discount_threshold

GamePrompt(g) == 4 * (g - 1) + 1
GameAbandoned(g) == 4 * (g - 1) + 2
GameCopy1(g) == 4 * (g - 1) + 3
GameCopy2(g) == 4 * g

CopySeedPrompt == GamePrompt(SeedGames + 1)
CopySeedLen == GameAbandoned(SeedGames + 1) + SeedBacklog

\* when the timeout of u1's copy of the last prompt was handled: a day
\* before StartTime, so that u1's cooldown for that prompt is over
SeedAbandonedAt == StartTime - abandon_cooldown_seconds

CopySeedRound(i, at) ==
  IF i > GameAbandoned(SeedGames + 1)
  THEN [SeedRound(IF i % 2 = 0 THEN "u4" ELSE "u5", "prompt", prompt_cost,
                  Null, "W3", Null) EXCEPT !.expires_at = StartTime]
  ELSE CASE i % 4 = 1 ->
              [SeedRound("a", "prompt", prompt_cost, Null, "W1", Null)
                 EXCEPT !.expires_at = IF i = CopySeedPrompt
                                       THEN at - (prompt_round_seconds
                                                  + copy_round_seconds)
                                       ELSE SeedRoundsAt]
         [] i % 4 = 2 ->
              [SeedRound("u1", "copy", copy_cost_normal, i - 1, "", Null)
                 EXCEPT !.status = "abandoned",
                        !.expires_at = IF i - 1 = CopySeedPrompt
                                       THEN at - (grace_period_seconds + 1)
                                       ELSE SeedRoundsAt]
         [] i % 4 = 3 ->
              SeedRound("u2", "copy", copy_cost_normal, i - 2, "W2", Null)
         [] OTHER ->
              SeedRound("u3", "copy", copy_cost_normal, i - 3, "W3", Null)

CopySeedRounds(at) == [i \in 1..CopySeedLen |-> CopySeedRound(i, at)]

CopySeedPhraseset(g) ==
  [SeedPhraseset(0) EXCEPT !.prompt_round_id = GamePrompt(g),
                           !.copy_round_1_id = GameCopy1(g),
                           !.copy_round_2_id = GameCopy2(g)]

CopySeedAbandoned(at) ==
  {[player_id |-> "u1", prompt_round_id |-> GamePrompt(g),
    abandoned_at |-> IF g = SeedGames + 1 THEN at ELSE SeedRoundsAt] :
     g \in 1..(SeedGames + 1)}

\* the journal j with one more transaction
Post(j, amount, type, ref) ==
  Append(j, [amount |-> amount, type |-> type, reference_id |-> ref,
             balance_after |-> (IF j = <<>> THEN starting_balance
                                ELSE j[Len(j)].balance_after) + amount])

RECURSIVE Entries(_, _, _)
Entries(n, amount, type) ==
  IF n = 0 THEN <<>> ELSE Post(Entries(n - 1, amount, type), amount, type, Null)

\* u1's journal after g abandoned copy rounds, each handled twice
RECURSIVE AbandonedJournal(_)
AbandonedJournal(g) ==
  IF g = 0 THEN <<>>
  ELSE Post(Post(Post(AbandonedJournal(g - 1),
                      -copy_cost_normal, "copy_entry", Null),
                 refund_amount(copy_cost_normal), "refund", GameAbandoned(g)),
            refund_amount(copy_cost_normal), "refund", GameAbandoned(g))

CopySeedJournal(p) ==
  CASE p = "a" ->
         Post(Post(Entries(SeedGames, -prompt_cost, "prompt_entry"),
                   daily_bonus_amount, "daily_bonus", Null),
              -prompt_cost, "prompt_entry", Null)
    [] p = "u1" ->
         Post(AbandonedJournal(SeedGames + 1),
              refund_amount(copy_cost_normal), "refund",
              GameAbandoned(SeedGames + 1))
    [] p \in {"u2", "u3"} -> Entries(SeedGames, -copy_cost_normal, "copy_entry")
    [] p \in {"u4", "u5"} -> Entries(SeedBacklog \div 2, -prompt_cost,
                                     "prompt_entry")
    [] OTHER -> <<>>

CopySeedBalance(p) ==
  IF CopySeedJournal(p) = <<>> THEN starting_balance
  ELSE CopySeedJournal(p)[Len(CopySeedJournal(p))].balance_after

CopySeedQueue ==
  <<CopySeedPrompt, CopySeedPrompt, CopySeedPrompt>>
  \o [k \in 1..SeedBacklog |-> GameAbandoned(SeedGames + 1) + k]

InitCopy ==
  LET at == SeedAbandonedAt IN
    /\ now = StartTime
    /\ balance = [p \in Players |-> CopySeedBalance(p)]
    /\ active_round_id = [p \in Players |-> Null]
    /\ last_login_date = [p \in Players |->
                            IF p = "a" THEN Date(SeedRoundsAt)
                            ELSE Date(created_at(p))]
    /\ journal = [p \in Players |-> CopySeedJournal(p)]
    /\ rounds = CopySeedRounds(at)
    /\ queue = CopySeedQueue
    /\ abandoned = CopySeedAbandoned(at)
    /\ phrasesets = [g \in 1..SeedGames |-> CopySeedPhraseset(g)]
    /\ votes = <<>>
    /\ result_views = {}
    /\ pending = <<>>
    /\ response = NoResponse
    /\ memory_hits = NoHits
    /\ checked = NoCheck

Copiers == {"a", "b", "c", "u1"}
CopyPollers == {"b", "u1"}
CopyEngineInputs == {"w1", "w2"}

NextCopy ==
  \/ \E p \in Copiers : RequestStartCopy(p)
  \/ \E i \in 1..MaxPending : ExecStartCopy(i)
  \/ \E p \in Copiers, k \in 1..MaxRounds, w \in CopyEngineInputs :
        SubmitCopyWord(p, CopySeedLen + k, w)
  \/ \E p \in CopyPollers : RequestGetCurrentRound(p)
  \/ \E i \in 1..MaxPending : ExecTimeout(i)
  \/ Tick(MaxTime)

SpecCopy == InitCopy /\ [][NextCopy]_vars

\* ======================================= one whole game (SpecGame)
\* The state after a has submitted the prompt W1 and u1 has let its copy
\* round on it time out, the timeout having been handled twice: the prompt
\* is in the queue twice.  From here two players copy the prompt, the
\* phraseset is built, and players start vote rounds and vote.
InitGame ==
  /\ now = StartTime
  /\ balance = [p \in Players |->
                  IF p = "a" THEN starting_balance - prompt_cost
                  ELSE IF p = "u1"
                  THEN AbandonedJournal(1)[Len(AbandonedJournal(1))].balance_after
                  ELSE starting_balance]
  /\ active_round_id = [p \in Players |-> Null]
  /\ last_login_date = [p \in Players |-> Date(created_at(p))]
  /\ journal = [p \in Players |->
                  IF p = "a" THEN Entries(1, -prompt_cost, "prompt_entry")
                  ELSE IF p = "u1" THEN AbandonedJournal(1)
                  ELSE <<>>]
  /\ rounds = <<SeedRound("a", "prompt", prompt_cost, Null, "W1", Null),
                [SeedRound("u1", "copy", copy_cost_normal, GamePrompt(1), "",
                           Null) EXCEPT !.status = "abandoned"]>>
  /\ queue = <<GamePrompt(1), GamePrompt(1)>>
  /\ abandoned = {[player_id |-> "u1", prompt_round_id |-> GamePrompt(1),
                   abandoned_at |-> SeedRoundsAt]}
  /\ phrasesets = <<>>
  /\ votes = <<>>
  /\ result_views = {}
  /\ pending = <<>>
  /\ response = NoResponse
  /\ memory_hits = NoHits
  /\ checked = NoCheck

GameCopiers == {"a", "b", "c"}
GameVoters == {"a", "b", "v1"}
GameCopyInputs == {"w2", "w3"}

NextGame ==
  \/ \E p \in GameCopiers : RequestStartCopy(p)
  \/ \E i \in 1..MaxPending : ExecStartCopy(i)
  \/ \E p \in GameCopiers, k \in 1..MaxRounds, w \in GameCopyInputs :
        SubmitCopyWord(p, GameAbandoned(1) + k, w)
  \/ \E p \in GameVoters : RequestStartVote(p)
  \/ \E i \in 1..MaxPending : ExecStartVoteLock(i)
  \/ \E i \in 1..MaxPending : ExecStartVoteCommit(i)
  \/ \E p \in GameVoters, ps \in 1..MaxPhrasesets, phrase \in VoteInputs :
        RequestSubmitVote(p, ps, phrase)
  \/ \E i \in 1..MaxPending : ExecSubmitVote(i)

SpecGame == InitGame /\ [][NextGame]_vars

\* ------------------------------------------------------------ claims C11-C20
\* the owners of the prompt round and of the two copy rounds of a phraseset,
\* read from the rows
PhrasesetOwners(ps) ==
  {rounds[phrasesets[ps].prompt_round_id].player_id,
   rounds[phrasesets[ps].copy_round_1_id].player_id,
   rounds[phrasesets[ps].copy_round_2_id].player_id}

CopyRounds == {c \in RoundIds : rounds[c].round_type = "copy"}

\* C11: no copy round is owned by the owner of the prompt round it copies,
\* so that the prompt owner of a phraseset is none of its copy owners, and
\* no vote on a phraseset was cast by one of its three contributors.
C11_NoSelfPlay ==
  /\ \A c \in CopyRounds :
       rounds[c].player_id # rounds[rounds[c].prompt_round_id].player_id
  /\ \A ps \in PhrasesetIds :
       rounds[phrasesets[ps].prompt_round_id].player_id
         \notin {rounds[phrasesets[ps].copy_round_1_id].player_id,
                 rounds[phrasesets[ps].copy_round_2_id].player_id}
  /\ \A v \in VoteIds :
       votes[v].player_id \notin PhrasesetOwners(votes[v].phraseset_id)

\* C11 witness: a phraseset built from two copies has a vote, and a
\* contributor who asked for a vote round has just been refused one.
C11_ContributorRefused ==
  /\ phrasesets # <<>>
  /\ votes # <<>>
  /\ response.op = "start_vote"
  /\ response.code = "no_wordsets_available"
  /\ response.player \in PhrasesetOwners(1)

\* the normal form under which phrases are compared
Normal(s) == Upper(Strip(s))

\* C12: in every phraseset the original phrase, copy 1 and copy 2 are
\* pairwise distinct after normalization.
C12_PhraseUniqueness ==
  \A ps \in PhrasesetIds :
    /\ Normal(phrasesets[ps].original_word) # Normal(phrasesets[ps].copy_word_1)
    /\ Normal(phrasesets[ps].original_word) # Normal(phrasesets[ps].copy_word_2)
    /\ Normal(phrasesets[ps].copy_word_1) # Normal(phrasesets[ps].copy_word_2)

\* the phrasesets built on prompts of player p that are open or closing
Outstanding(p) ==
  {ps \in PhrasesetIds :
     /\ rounds[phrasesets[ps].prompt_round_id].player_id = p
     /\ phrasesets[ps].status \in {"open", "closing"}}

\* C13: no player has more than max_outstanding_prompts phrasesets that
\* are open or closing.
C13_OutstandingBound ==
  \A p \in Players : Cardinality(Outstanding(p)) <= max_outstanding_prompts

PhrasesetsOf(r) ==
  {ps \in PhrasesetIds : phrasesets[ps].prompt_round_id = r}

\* C14: at most one phraseset references a prompt round, and a prompt
\* round with two submitted copies has its phraseset.
C14_OnePhrasesetPerPrompt ==
  \A r \in RoundIds :
    /\ Cardinality(PhrasesetsOf(r)) <= 1
    /\ Cardinality(CopiesOf(r, {"submitted"})) >= 2 => PhrasesetsOf(r) # {}

\* the step is a run of handle_timeout on round r
Handled(r) ==
  \E i \in 1..Len(pending) :
    /\ pending[i].op = "timeout"
    /\ pending[i].round = r
    /\ pending' = RemoveAt(pending, i)

\* the journal of p has grown by exactly one refund of this amount for r
Refunded(p, r, amount) ==
  /\ journal' = [journal EXCEPT ![p] =
                   Append(@, [amount |-> amount, type |-> "refund",
                              reference_id |-> r,
                              balance_after |-> balance[p] + amount])]
  /\ balance' = [balance EXCEPT ![p] = @ + amount]

\* C15: handling the timeout of an active prompt round sets it to expired,
\* refunds its owner exactly once with 90, clears the owner's
\* active_round_id and leaves the prompt queue as it is; handling a round
\* that is no longer active changes no round, balance, journal or queue.
C15_PromptTimeout ==
  [][\A r \in RoundIds :
       (Handled(r) /\ rounds[r].round_type = "prompt")
         => IF rounds[r].status = "active"
            THEN /\ rounds'[r].status = "expired"
                 /\ Refunded(rounds[r].player_id, r,
                             prompt_cost - prompt_cost \div 10)
                 /\ active_round_id'[rounds[r].player_id] = Null
                 /\ queue' = queue
            ELSE /\ rounds' = rounds
                 /\ balance' = balance
                 /\ journal' = journal
                 /\ queue' = queue]_vars

\* player p let a copy round on prompt prid time out less than 24 hours ago
RecentlyAbandoned(p, prid) ==
  \E c \in CopyRounds :
    /\ rounds[c].player_id = p
    /\ rounds[c].prompt_round_id = prid
    /\ rounds[c].status = "abandoned"
    /\ rounds[c].expires_at > now - abandon_cooldown_seconds

\* the step is a run of start_copy_round for player p
StartsCopy(p) ==
  \E i \in 1..Len(pending) :
    /\ pending[i].op = "start_copy"
    /\ pending[i].player = p
    /\ pending' = RemoveAt(pending, i)

\* C16: handling the timeout of an active copy round sets it to abandoned,
\* refunds its owner 90% of the cost paid, puts the prompt back in the
\* queue and stores an abandonment record of this instant; a start-copy of
\* a player who abandoned the prompt at the head of the queue less than
\* 24 hours ago is refused, keeps the prompt in the queue and changes no
\* balance.
C16_CopyAbandonment ==
  [][/\ \A r \in RoundIds :
          (Handled(r) /\ rounds[r].round_type = "copy"
                      /\ rounds[r].status = "active")
            => /\ rounds'[r].status = "abandoned"
               /\ Refunded(rounds[r].player_id, r,
                           rounds[r].cost - rounds[r].cost \div 10)
               /\ \E k \in 1..Len(queue') :
                    queue'[k] = rounds[r].prompt_round_id
               /\ \E rec \in abandoned' :
                    /\ rec.player_id = rounds[r].player_id
                    /\ rec.prompt_round_id = rounds[r].prompt_round_id
                    /\ rec.abandoned_at = now
     /\ \A p \in Players :
          (StartsCopy(p) /\ queue # <<>> /\ RecentlyAbandoned(p, Head(queue)))
            => /\ response'.code # "ok"
               /\ rounds' = rounds
               /\ \E k \in 1..Len(queue') : queue'[k] = Head(queue)
               /\ balance' = balance]_vars

\* C17: handling the timeout of an active vote round sets it to expired,
\* writes no transaction and clears the owner's active_round_id.
C17_VoteTimeout ==
  [][\A r \in RoundIds :
       (Handled(r) /\ rounds[r].round_type = "vote"
                   /\ rounds[r].status = "active")
         => /\ rounds'[r].status = "expired"
            /\ journal' = journal
            /\ balance' = balance
            /\ active_round_id'[rounds[r].player_id] = Null]_vars

\* the copy round created by the step, when the step created one
NewCopyRound == rounds'[Len(rounds')]

\* C19: a start-copy that is served while more than 10 prompts wait in the
\* queue debits 90, answers cost 90 with discount_active, and records
\* system_contribution 10 on the new round; one that is served while 10 or
\* fewer wait debits 100 and records system_contribution 0.
C19_DiscountRule ==
  [][\A p \in Players :
       (StartsCopy(p) /\ response'.code = "ok")
         => IF Len(queue) > copy_discount_threshold
            THEN /\ balance'[p] = balance[p] - copy_cost_discount
                 /\ response'.amount = copy_cost_discount
                 /\ response'.flag
                 /\ NewCopyRound.system_contribution
                      = copy_cost_normal - copy_cost_discount
            ELSE /\ balance'[p] = balance[p] - copy_cost_normal
                 /\ NewCopyRound.system_contribution = 0]_vars

\* the phrasesets created by the step
NewPhrasesets == (Len(phrasesets) + 1)..Len(phrasesets')

\* C20: a phraseset is created open, with no votes, no third-vote,
\* fifth-vote or finalization time, and with a total pool of 300 plus the
\* system contributions of its two copy rounds.
C20_PoolAtCreation ==
  [][\A k \in NewPhrasesets :
       LET ps == phrasesets'[k] IN
       /\ ps.status = "open"
       /\ ps.vote_count = 0
       /\ ps.third_vote_at = NoTime
       /\ ps.fifth_vote_at = NoTime
       /\ ps.finalized_at = NoTime
       /\ ps.total_pool
            = wordset_prize_pool
              + rounds'[ps.copy_round_1_id].system_contribution
              + rounds'[ps.copy_round_2_id].system_contribution]_vars

\* ------------------------------------------- the unattended server (SpecTimer)
\* The vote engine with one client, and with what the process does without
\* a client made explicit.  main.py's lifespan starts no background task and
\* no service schedules one: of its own accord the server only runs the
\* requests it has accepted to the end, while the clock advances.  Those
\* are the fair steps; a client is never obliged to send a request.
TimerVoters == {"v1"}

ServerStep ==
  \E i \in 1..MaxPending :
    \/ ExecStartVoteLock(i)
    \/ ExecStartVoteCommit(i)
    \/ ExecSubmitVote(i)
    \/ ExecTimeout(i)

NextTimer ==
  \/ \E p \in TimerVoters : RequestStartVote(p)
  \/ \E p \in TimerVoters, ps \in 1..MaxPhrasesets, phrase \in VoteInputs :
        RequestSubmitVote(p, ps, phrase)
  \/ \E p \in TimerVoters : RequestGetCurrentRound(p)
  \/ ServerStep
  \/ Tick(MaxVoteTime)

SpecTimer ==
  /\ InitVote
  /\ [][NextTimer]_vars
  /\ WF_vars(ServerStep)
  /\ WF_vars(Tick(MaxVoteTime))

\* the rounds a behaviour of the unattended server can hold
TimerRounds == 1..(Len(SeedRounds(Len(PastVoterSeq))) + MaxVoteRounds)

ThirdVoteWindowOver(ps) ==
  /\ ps \in PhrasesetIds
  /\ phrasesets[ps].vote_count >= 3
  /\ phrasesets[ps].third_vote_at # NoTime
  /\ phrasesets[ps].fifth_vote_at = NoTime
  /\ now >= phrasesets[ps].third_vote_at + third_vote_window_seconds

ClosingWindowOver(ps) ==
  /\ ps \in PhrasesetIds
  /\ phrasesets[ps].fifth_vote_at # NoTime
  /\ now >= phrasesets[ps].fifth_vote_at + closing_window_seconds

Finalized(ps) == ps \in PhrasesetIds /\ phrasesets[ps].status = "finalized"

RoundOverdue(r) ==
  /\ r \in RoundIds
  /\ rounds[r].status = "active"
  /\ PastGrace(r)

RoundClosed(r) ==
  r \in RoundIds /\ rounds[r].status \in {"expired", "abandoned", "submitted"}

\* C18: without any further request, a phraseset whose third-vote window
\* is over is eventually finalized, a phraseset whose closing window is
\* over is eventually finalized, and an active round past its grace cutoff
\* eventually stops being active.
C18_TimerTransitions ==
  /\ \A ps \in 1..MaxPhrasesets : ThirdVoteWindowOver(ps) ~> Finalized(ps)
  /\ \A ps \in 1..MaxPhrasesets : ClosingWindowOver(ps) ~> Finalized(ps)
  /\ \A r \in TimerRounds : RoundOverdue(r) ~> RoundClosed(r)

\* ------------------------------------------ refusals and retries (SpecRetry)
\* The vote engine's seed with two clients: v1 votes, and v2, who is down
\* to its last 100 after nine earlier prompt rounds, plays prompt rounds.
\* Both send invalid input as well as valid input.
RetrySpent == (starting_balance \div prompt_cost) - 1

InitRetry ==
  \E n \in SeedCounts :
    /\ now = StartTime
    /\ balance = [p \in Players |->
                    IF p = "v2"
                    THEN starting_balance - RetrySpent * prompt_cost
                    ELSE SeedBalance(p, n)]
    /\ active_round_id = [p \in Players |-> Null]
    /\ last_login_date = [p \in Players |-> Date(created_at(p))]
    /\ journal = [p \in Players |->
                    IF p = "v2" THEN History(RetrySpent)
                    ELSE SeedJournal(p, n)]
    /\ rounds = SeedRounds(n)
    /\ queue = <<>>
    /\ abandoned = {}
    /\ phrasesets = <<SeedPhraseset(n)>>
    /\ votes = SeedVotes(n)
    /\ result_views = {}
    /\ pending = <<>>
    /\ response = NoResponse
    /\ memory_hits = NoHits
    /\ checked = NoCheck

NextRetry ==
  \/ RequestStartPrompt("v2")
  \/ \E i \in 1..MaxPending : ExecStartPrompt(i)
  \/ \E r \in TimerRounds, w \in PromptInputs : SubmitPromptWord("v2", r, w)
  \/ RequestStartVote("v1")
  \/ \E i \in 1..MaxPending : ExecStartVoteLock(i)
  \/ \E i \in 1..MaxPending : ExecStartVoteCommit(i)
  \/ \E ps \in 1..MaxPhrasesets, phrase \in ClaimVoteInputs :
        RequestSubmitVote("v1", ps, phrase)
  \/ \E i \in 1..MaxPending : ExecSubmitVote(i)
  \/ Tick(MaxTime)

SpecRetry == InitRetry /\ [][NextRetry]_vars

\* what a refused request answers
ErrorCodes ==
  {"insufficient_balance", "already_in_round", "max_outstanding_prompts",
   "no_prompts_available", "no_wordsets_available", "own_prompt",
   "abandoned_cooldown", "invalid_word", "duplicate", "expired",
   "already_voted", "invalid_choice", "no_active_vote_round",
   "not_in_vote_round", "phraseset_mismatch", "phraseset_not_found",
   "error_500"}

Refusal ==
  /\ response'.op \in {"start_prompt", "start_copy", "start_vote",
                       "submit_prompt", "submit_copy", "submit_vote"}
  /\ response'.code \in ErrorCodes

\* C21: a request that is refused with a precondition or validation error
\* changes no balance, no journal, no round, no active_round_id, no
\* phraseset and no vote, so the round it was sent for is as open to a
\* valid submission as it was before.
C21_ErrorsKeepState ==
  [][Refusal => UNCHANGED <<balance, journal, rounds, active_round_id,
                            phrasesets, votes>>]_vars

\* v2's submission was refused as invalid and its prompt round is still
\* active and within its time
C21_RefusedStillOpen ==
  /\ response.op = "submit_prompt"
  /\ response.code = "invalid_word"
  /\ active_round_id["v2"] # Null
  /\ rounds[active_round_id["v2"]].status = "active"
  /\ ~PastGrace(active_round_id["v2"])

\* how many times prompt round x waits in the queue q
Waiting(q, x) == Cardinality({k \in 1..Len(q) : q[k] = x})

\* C22: a start-copy that has popped a prompt and then fails leaves that
\* prompt waiting in the queue as often as before, leaves the caller's
\* balance as it was and creates no round.
C22_PushBack ==
  [][\A p \in Players :
       (StartsCopy(p) /\ queue # <<>> /\ response'.code # "ok")
         => /\ Waiting(queue', Head(queue)) = Waiting(queue, Head(queue))
            /\ balance'[p] = balance[p]
            /\ rounds' = rounds]_vars

\* prompt round x may be copied by player p
Eligible(p, x) == rounds[x].player_id # p /\ ~InCooldown(p, x)

\* C23: a start-copy of a player who has no active round and can pay the
\* full cost succeeds whenever some prompt waiting in the queue is eligible
\* for that player, wherever in the queue it waits.
C23_StartCopySearch ==
  [][\A p \in Players :
       (/\ StartsCopy(p)
        /\ active_round_id[p] = Null
        /\ balance[p] >= copy_cost_normal
        /\ \E k \in 1..Len(queue) : Eligible(p, queue[k]))
         => response'.code = "ok"]_vars

\* ---------------------------------------- the finalization engine (SpecFinal)
\* The state of the vote engine in which three votes are in, the third
\* cast 550 s ago, and three more voters have each just started a vote
\* round on the phraseset: the fourth and the fifth vote are cast while
\* other submissions are in flight and the third-vote window runs out.
FinalSeed == 3
FinalVoterSeq == <<"v1", "v2", "u4">>
FinalVoters == {FinalVoterSeq[k] : k \in 1..Len(FinalVoterSeq)}

InitFinal ==
  /\ now = StartTime
  /\ balance = [p \in Players |-> IF p \in FinalVoters
                                  THEN starting_balance - vote_cost
                                  ELSE SeedBalance(p, FinalSeed)]
  /\ active_round_id = [p \in Players |->
                          IF p \in FinalVoters
                          THEN Len(SeedRounds(FinalSeed))
                               + (CHOOSE k \in 1..Len(FinalVoterSeq) :
                                    FinalVoterSeq[k] = p)
                          ELSE Null]
  /\ last_login_date = [p \in Players |-> Date(created_at(p))]
  /\ journal = [p \in Players |-> IF p \in FinalVoters THEN <<VoteEntry>>
                                  ELSE SeedJournal(p, FinalSeed)]
  /\ rounds = SeedRounds(FinalSeed)
              \o [k \in 1..Len(FinalVoterSeq) |->
                    NewRound(FinalVoterSeq[k], "vote", vote_cost,
                             vote_round_seconds, Null, 0, 1)]
  /\ queue = <<>>
  /\ abandoned = {}
  /\ phrasesets = <<SeedPhraseset(FinalSeed)>>
  /\ votes = SeedVotes(FinalSeed)
  /\ result_views = {}
  /\ pending = <<>>
  /\ response = NoResponse
  /\ memory_hits = NoHits
  /\ checked = NoCheck

NextFinal ==
  \/ \E p \in FinalVoters, ps \in 1..MaxPhrasesets, phrase \in VoteInputs :
        RequestSubmitVote(p, ps, phrase)
  \/ \E i \in 1..MaxPending : ExecSubmitVote(i)
  \/ Tick(MaxVoteTime)

SpecFinal == InitFinal /\ [][NextFinal]_vars

\* the finalization conditions on the phraseset row ps at the instant t
MayFinalize(ps, t) ==
  \/ ps.vote_count >= max_votes
  \/ /\ ps.fifth_vote_at # NoTime
     /\ t - ps.fifth_vote_at >= closing_window_seconds
  \/ /\ ps.vote_count >= 3
     /\ ps.third_vote_at # NoTime
     /\ ps.fifth_vote_at = NoTime
     /\ t - ps.third_vote_at >= third_vote_window_seconds

\* the step records a vote on phraseset k
VoteRecorded(k) ==
  /\ Len(votes') = Len(votes) + 1
  /\ votes'[Len(votes')].phraseset_id = k

\* C24: a phraseset becomes finalized only in a step after which its row
\* meets one of the finalization conditions, a step that records a vote
\* and leaves a condition met finalizes the phraseset, and a finalized
\* phraseset has at least three votes.
C24_FinalizationConditions ==
  [][\A k \in PhrasesetIds :
       /\ (phrasesets[k].status # "finalized"
           /\ phrasesets'[k].status = "finalized")
            => /\ MayFinalize(phrasesets'[k], now)
               /\ Cardinality({v \in 1..Len(votes') :
                                 votes'[v].phraseset_id = k}) >= 3
       /\ (VoteRecorded(k) /\ MayFinalize(phrasesets'[k], now))
            => phrasesets'[k].status = "finalized"]_vars

\* ------------------------------------------- the selection engine (SpecPick)
\* Four phrasesets of a, b and c wait for votes: two are closing with five
\* votes each (the second has the older fifth vote), one has three votes
\* and one has none.  The past votes were all cast for the first copy; u4
\* has voted on both closing phrasesets, v1 has not voted yet.
PickVoteCount == <<5, 5, 3, 0>>
PickThirdAt == <<StartTime - 100, StartTime - 200, StartTime - 300, NoTime>>
PickFifthAt == <<StartTime - 20, StartTime - 40, NoTime, NoTime>>
PickSets == 1..Len(PickVoteCount)

PickVotesOn(k) ==
  [j \in 1..PickVoteCount[k] |->
     [phraseset_id |-> k, player_id |-> PastVoterSeq[j],
      voted_phrase |-> "W2", correct |-> FALSE, payout |-> 0]]

RECURSIVE PickVotesUpTo(_)
PickVotesUpTo(k) ==
  IF k = 0 THEN <<>> ELSE PickVotesUpTo(k - 1) \o PickVotesOn(k)

PickVotes == PickVotesUpTo(Len(PickVoteCount))

PickRounds ==
  [i \in 1..(3 * Len(PickVoteCount)) |->
     IF i % 3 = 1 THEN SeedRound("a", "prompt", prompt_cost, Null, "W1", Null)
     ELSE IF i % 3 = 2
     THEN SeedRound("b", "copy", copy_cost_normal, i - 1, "W2", Null)
     ELSE SeedRound("c", "copy", copy_cost_normal, i - 2, "W3", Null)]
  \o [v \in 1..Len(PickVotes) |->
        SeedRound(PickVotes[v].player_id, "vote", vote_cost, Null, "",
                  PickVotes[v].phraseset_id)]

PickPhraseset(k) ==
  [SeedPhraseset(0) EXCEPT
     !.prompt_round_id = 3 * k - 2,
     !.copy_round_1_id = 3 * k - 1,
     !.copy_round_2_id = 3 * k,
     !.vote_count = PickVoteCount[k],
     !.third_vote_at = PickThirdAt[k],
     !.fifth_vote_at = PickFifthAt[k],
     !.closes_at = IF PickFifthAt[k] = NoTime THEN NoTime
                   ELSE PickFifthAt[k] + closing_window_seconds,
     !.status = IF PickFifthAt[k] = NoTime THEN "open" ELSE "closing"]

PickJournal(p) ==
  CASE p = "a" -> Entries(Len(PickVoteCount), -prompt_cost, "prompt_entry")
    [] p \in {"b", "c"} ->
         Entries(Len(PickVoteCount), -copy_cost_normal, "copy_entry")
    [] OTHER ->
         Entries(Cardinality({v \in 1..Len(PickVotes) :
                                PickVotes[v].player_id = p}),
                 -vote_cost, "vote_entry")

InitPick ==
  /\ now = StartTime
  /\ journal = [p \in Players |-> PickJournal(p)]
  /\ balance = [p \in Players |->
                  IF PickJournal(p) = <<>> THEN starting_balance
                  ELSE PickJournal(p)[Len(PickJournal(p))].balance_after]
  /\ active_round_id = [p \in Players |-> Null]
  /\ last_login_date = [p \in Players |-> Date(created_at(p))]
  /\ rounds = PickRounds
  /\ queue = <<>>
  /\ abandoned = {}
  /\ phrasesets = [k \in PickSets |-> PickPhraseset(k)]
  /\ votes = PickVotes
  /\ result_views = {}
  /\ pending = <<>>
  /\ response = NoResponse
  /\ memory_hits = NoHits
  /\ checked = NoCheck

PickVoters == {"v1", "u4", "a"}
MaxPickRounds == 2    \* vote rounds one voter starts in the selection engine
\* the clock of the selection engine stops when both closing windows are over
PickMaxTime == PickFifthAt[1] + closing_window_seconds
PickInputs == {"w2"}

PickRoundsOf(p) ==
  Cardinality({r \in RoundIds : /\ rounds[r].player_id = p
                                /\ rounds[r].expires_at > StartTime})
  + Cardinality({i \in 1..Len(pending) : /\ pending[i].op = "start_vote"
                                         /\ pending[i].player = p})

NextPick ==
  \/ \E p \in PickVoters : PickRoundsOf(p) < MaxPickRounds /\ RequestStartVote(p)
  \/ \E i \in 1..MaxPending : ExecStartVoteLock(i)
  \/ \E i \in 1..MaxPending : ExecStartVoteCommit(i)
  \/ \E p \in PickVoters, phrase \in PickInputs :
        /\ active_round_id[p] # Null   \* the voter answers the round it is in
        /\ RequestSubmitVote(p, rounds[active_round_id[p]].phraseset_id, phrase)
  \/ \E i \in 1..MaxPending : ExecSubmitVote(i)
  \/ Tick(PickMaxTime)

SpecPick == InitPick /\ [][NextPick]_vars

\* the phrasesets player p may vote on
EligibleSets(p) ==
  {k \in PhrasesetIds : /\ phrasesets[k].status \in {"open", "closing"}
                        /\ p \notin PhrasesetOwners(k)
                        /\ VotesOf(p, k) = {}}

\* the step is start_vote_round choosing phraseset k for player p
Picks(p, k) ==
  \E i \in 1..Len(pending) :
    /\ pending[i].op = "start_vote"
    /\ pending[i].player = p
    /\ pending[i].stage = "checked"
    /\ Len(pending') = Len(pending)
    /\ pending'[i].stage = "locked"
    /\ pending'[i].phraseset = k

\* the step refuses player p's start-vote for want of a phraseset
NothingToVoteOn(p) ==
  /\ response'.op = "start_vote"
  /\ response'.player = p
  /\ response'.code = "no_wordsets_available"

\* the step is start_vote_round running its selection for player p
Selects(p) ==
  \E i \in 1..Len(pending) :
    /\ pending[i].op = "start_vote"
    /\ pending[i].player = p
    /\ pending[i].stage = "checked"
    /\ \/ pending' = RemoveAt(pending, i)
       \/ /\ Len(pending') = Len(pending)
          /\ pending'[i].stage = "locked"

\* C25: start_vote_round picks, among the phrasesets eligible for the
\* voter, one with the oldest fifth_vote_at if some have five votes or
\* more, otherwise one with the oldest third_vote_at if some have three or
\* four votes, otherwise one with fewer than three votes; it refuses with
\* no_wordsets_available, changing no balance, exactly when none is
\* eligible.
C25_VotePriority ==
  [][\A p \in Players :
       LET E == EligibleSets(p)
           P1 == {k \in E : phrasesets[k].vote_count >= 5}
           P2 == {k \in E : /\ phrasesets[k].vote_count >= 3
                            /\ phrasesets[k].vote_count < 5}
       IN
       /\ \A k \in 1..Len(PickVoteCount) :
            Picks(p, k)
              => IF P1 # {}
                 THEN /\ k \in P1
                      /\ \A o \in P1 : phrasesets[k].fifth_vote_at
                                         <= phrasesets[o].fifth_vote_at
                 ELSE IF P2 # {}
                 THEN /\ k \in P2
                      /\ \A o \in P2 : phrasesets[k].third_vote_at
                                         <= phrasesets[o].third_vote_at
                 ELSE k \in E /\ phrasesets[k].vote_count < 3
       /\ NothingToVoteOn(p) => E = {} /\ balance' = balance
       /\ (Selects(p) /\ E = {}) => NothingToVoteOn(p)]_vars

\* u4, who has voted on both closing phrasesets, is given the phraseset
\* with three votes and not the one without votes, while v1 is given the
\* closing phraseset with the older fifth vote
C25_GivenByPriority ==
  \E i, j \in 1..Len(pending) :
    /\ pending[i].op = "start_vote"
    /\ pending[i].player = "u4"
    /\ pending[i].stage = "locked"
    /\ pending[i].phraseset = 3
    /\ phrasesets[4].status = "open"
    /\ VotesOf("u4", 4) = {}
    /\ pending[j].op = "start_vote"
    /\ pending[j].player = "v1"
    /\ pending[j].stage = "locked"
    /\ pending[j].phraseset = 2
    /\ phrasesets[1].status = "closing"
    /\ VotesOf("v1", 1) = {}

\* --------------------------------------------------------- the vote outcome
\* the journal entries of player p of one type
EntriesOfType(j, type) == {k \in 1..Len(j) : j[k].type = type}

\* the step is the end of submit_vote request i, accepted
AcceptsVote(i) ==
  /\ i \in 1..Len(pending)
  /\ pending[i].op = "submit_vote"
  /\ pending' = RemoveAt(pending, i)
  /\ response'.op = "submit_vote"
  /\ response'.player = pending[i].player
  /\ response'.code = "ok"

\* what an accepted vote must leave behind: the Vote row, the credit, the
\* round and the pointer
VoteOutcome(i) ==
  LET p == pending[i].player
      r == pending[i].round
      ps == pending[i].phraseset
      row == votes'[Len(votes')]
      payout == IF row.correct THEN vote_payout_correct ELSE 0
      paid == EntriesOfType(journal'[p], "vote_payout")
              \ EntriesOfType(journal[p], "vote_payout")
  IN /\ Len(votes') = Len(votes) + 1
     /\ row.player_id = p
     /\ row.phraseset_id = ps
     /\ row.voted_phrase = Upper(Strip(pending[i].phrase))
     /\ row.correct = (row.voted_phrase = phrasesets[ps].original_word)
     /\ row.payout = payout
     /\ Len(journal'[p]) = Len(journal[p]) + Cardinality(paid)
     /\ Cardinality(paid) = IF row.correct THEN 1 ELSE 0
     /\ \A k \in paid : /\ journal'[p][k].amount = payout
                        /\ journal'[p][k].reference_id = Len(votes')
     /\ balance'[p] = balance[p] + payout
     /\ rounds[r].round_type = "vote"
     /\ rounds[r].cost = vote_cost
     /\ balance'[p] - rounds[r].cost = balance[p] - 1 + payout
     /\ rounds'[r].status = "submitted"
     /\ active_round_id'[p] = Null

\* C26: an accepted vote is recorded with correct = (the stripped, upper-cased
\* chosen phrase equals the original phrase) and payout 5 if correct, else 0;
\* the voter is credited that payout by one vote_payout transaction, none
\* when incorrect, so that with the entry cost of 1 charged at the start the
\* round changes the balance by -1 + payout; the vote round becomes submitted
\* and the voter's active_round_id is cleared.
C26_VoteOutcome ==
  [][\A i \in 1..MaxPending : AcceptsVote(i) => VoteOutcome(i)]_vars

\* a correct and an incorrect vote are both in, each voter's round submitted
C26_BothOutcomes ==
  /\ \E v \in VoteIds : /\ votes[v].player_id = "v1"
                        /\ votes[v].correct
                        /\ balance["v1"] = starting_balance - vote_cost
                                           + vote_payout_correct
  /\ \E v \in VoteIds : /\ votes[v].player_id = "v2"
                        /\ ~votes[v].correct
                        /\ balance["v2"] = starting_balance - vote_cost
  /\ \A p \in Voters : active_round_id[p] = Null

\* ------------------------------------------- the scoring engine (SpecScore)
\* The state of the vote engine after the first n past voters have voted,
\* each for any of the three phrases, the third vote SeedThirdVoteAt ago,
\* and v1 and v2 have each just started a vote round on the phraseset: the
\* votes that follow finalize it on one of the vote tables so reached.
ScoreCounts == {3, 4, 5}
ScoreInputs == {"w1", "w2", "w3"}

ScoreVotes(f) ==
  [k \in 1..Len(f) |-> [phraseset_id |-> 1, player_id |-> PastVoterSeq[k],
                        voted_phrase |-> f[k],
                        correct |-> f[k] = "W1",
                        payout |-> IF f[k] = "W1"
                                   THEN vote_payout_correct ELSE 0]]

ScoreJournal(p, f) ==
  IF p \in Voters THEN <<VoteEntry>>
  ELSE IF p \notin {PastVoterSeq[k] : k \in 1..Len(f)}
  THEN SeedJournal(p, 0)
  ELSE IF f[SeedIndex(p)] = "W1"
  THEN <<VoteEntry,
         [amount |-> vote_payout_correct, type |-> "vote_payout",
          reference_id |-> SeedIndex(p),
          balance_after |-> starting_balance - vote_cost
                            + vote_payout_correct]>>
  ELSE <<VoteEntry>>

\* the choices of n past voters: n0 for W1, then n1 for W2, the rest for W3
ScoreChoices(n, n0, n1) ==
  [k \in 1..n |-> IF k <= n0 THEN "W1" ELSE IF k <= n0 + n1 THEN "W2" ELSE "W3"]

InitScore ==
  \E n \in ScoreCounts : \E n0 \in 0..n : \E n1 \in 0..(n - n0) :
   LET f == ScoreChoices(n, n0, n1) IN
    /\ now = StartTime
    /\ journal = [p \in Players |-> ScoreJournal(p, f)]
    /\ balance = [p \in Players |->
                    IF ScoreJournal(p, f) = <<>> THEN starting_balance
                    ELSE ScoreJournal(p, f)[Len(ScoreJournal(p, f))].balance_after]
    /\ active_round_id = [p \in Players |->
                            IF p = "v1" THEN Len(SeedRounds(n)) + 1
                            ELSE IF p = "v2" THEN Len(SeedRounds(n)) + 2
                            ELSE Null]
    /\ last_login_date = [p \in Players |-> Date(created_at(p))]
    /\ rounds = SeedRounds(n)
                \o <<NewRound("v1", "vote", vote_cost, vote_round_seconds,
                              Null, 0, 1),
                     NewRound("v2", "vote", vote_cost, vote_round_seconds,
                              Null, 0, 1)>>
    /\ queue = <<>>
    /\ abandoned = {}
    /\ phrasesets = <<SeedPhraseset(n)>>
    /\ votes = ScoreVotes(f)
    /\ result_views = {}
    /\ pending = <<>>
    /\ response = NoResponse
    /\ memory_hits = NoHits
    /\ checked = NoCheck

NextScore ==
  \/ \E p \in Voters, ps \in 1..MaxPhrasesets, phrase \in ScoreInputs :
        RequestSubmitVote(p, ps, phrase)
  \/ \E i \in 1..MaxPending : ExecSubmitVote(i)
  \/ Tick(MaxVoteTime)

SpecScore == InitScore /\ [][NextScore]_vars

\* the votes for one phrase in the votes table
VotesFor(ps, phrase) ==
  Cardinality({v \in VoteIds : /\ votes[v].phraseset_id = ps
                               /\ votes[v].voted_phrase = phrase})

\* q is the floor of num / den
IsFloor(q, num, den) == q * den <= num /\ num < (q + 1) * den

\* the payouts calculate_payouts gives on the table are those of the formula
ScoredByFormula(ps) ==
  LET v0 == VotesFor(ps, phrasesets[ps].original_word)
      v1 == VotesFor(ps, phrasesets[ps].copy_word_1)
      v2 == VotesFor(ps, phrasesets[ps].copy_word_2)
      T == phrasesets[ps].total_pool
      pool == T - 5 * v0
      total == v0 + 2 * v1 + 2 * v2
      pay == calculate_payouts(votes, ps)
  IN /\ total > 0 => /\ IsFloor(pay.original, v0 * pool, total)
                     /\ IsFloor(pay.copy1, 2 * v1 * pool, total)
                     /\ IsFloor(pay.copy2, 2 * v2 * pool, total)
                     /\ pay.original + pay.copy1 + pay.copy2 <= pool
     /\ (T = 300 /\ v0 = 3 /\ v1 = 1 /\ v2 = 1)
          => pay = [original |-> 122, copy1 |-> 81, copy2 |-> 81]

\* what the step pays the three contributors
Prizes ==
  [original |-> balance'["a"] - balance["a"],
   copy1 |-> balance'["b"] - balance["b"],
   copy2 |-> balance'["c"] - balance["c"]]

\* an accepted vote pays the contributors nothing or, when it finalizes
\* phraseset ps, what calculate_payouts gives on the votes then recorded
PaysScores(ps) ==
  (/\ response'.op = "submit_vote"
   /\ response'.code = "ok"
   /\ response'.id = ps)
  => /\ \/ Prizes = [original |-> 0, copy1 |-> 0, copy2 |-> 0]
        \/ Prizes = calculate_payouts(votes', ps)
     /\ (phrasesets[ps].status # "finalized"
         /\ phrasesets'[ps].status = "finalized")
          => Prizes = calculate_payouts(votes', ps)

\* C27: with pool T and votes v0 on the original, v1 and v2 on the copies,
\* calculate_payouts pays the contributors the floors of v0, 2*v1 and 2*v2
\* times (T - 5*v0) over v0 + 2*v1 + 2*v2, the remainder discarded; T = 300
\* with votes 3, 1, 1 gives 122, 81, 81; finalization pays these amounts.
C27_ScoringFormula ==
  /\ [](\A ps \in PhrasesetIds : ScoredByFormula(ps))
  /\ [][\A ps \in PhrasesetIds : PaysScores(ps)]_vars

LastEntry(p) == journal[p][Len(journal[p])]

\* the phraseset is finalized on votes 3, 1, 1 and the last payments are
\* 122, 81, 81
C27_Example ==
  /\ phrasesets[1].status = "finalized"
  /\ VotesFor(1, "W1") = 3 /\ VotesFor(1, "W2") = 1 /\ VotesFor(1, "W3") = 1
  /\ LastEntry("a").type = "prize_payout" /\ LastEntry("a").amount = 122
  /\ LastEntry("b").type = "prize_payout" /\ LastEntry("b").amount = 81
  /\ LastEntry("c").type = "prize_payout" /\ LastEntry("c").amount = 81

\* ------------------------------------------ the daily bonus (SpecBonus)
\* Claims of the daily bonus as requests in flight: the router loads the
\* player, claim_daily_bonus tests is_daily_bonus_available on the loaded
\* object and adds the DailyBonus row to its session; the commit inside
\* create_transaction writes that row, the Transaction row and the player
\* in one database transaction (autoflush is off).  A DailyBonus row and its
\* daily_bonus transaction are committed together, so the daily_bonuses
\* table is read off the journal: the reference of a daily_bonus entry is
\* the bonus row, named by its date.
MaxDay == 3           \* the clock of the bonus engine stops on this day
BonusPlayers == {"a", "b"}

BonusDates(p) ==
  {journal[p][k].reference_id :
     k \in {x \in 1..Len(journal[p]) : journal[p][x].type = "daily_bonus"}}

\* a daily_bonuses table without its unique constraint
NoBonusConstraint(p, d) == FALSE

\* DailyBonus.__table_args__: UniqueConstraint(player_id, date) refuses the
\* insert of a second row for player p and date d
uq_player_daily_bonus(p, d) == d \in BonusDates(p)

RequestClaimDailyBonus(p) ==
  /\ Len(pending) < MaxPending
  /\ IF ~is_daily_bonus_available(p)
     THEN /\ response' = Resp("daily_bonus", p, "not_available")
          /\ UNCHANGED pending
     ELSE /\ pending' = Append(pending, Req("daily_bonus", p))
          /\ response' = NoResponse
  /\ UNCHANGED <<now, balance, active_round_id, last_login_date, journal,
                 rounds, queue, abandoned, phrasesets, votes, result_views>>
  /\ UNCHANGED <<memory_hits, checked>>

\* PlayerService.claim_daily_bonus from create_transaction on: the commit
\* raises IntegrityError when the unique constraint refuses the bonus row
ExecClaimDailyBonus(i) ==
  /\ i \in 1..Len(pending)
  /\ pending[i].op = "daily_bonus"
  /\ pending' = RemoveAt(pending, i)
  /\ LET p == pending[i].player IN
     IF uq_player_daily_bonus(p, Date(now))
     THEN /\ response' = Resp("daily_bonus", p, "error_500")
          /\ UNCHANGED <<last_login_date, balance, journal>>
     ELSE LET L == create_transaction(Ledger, p, daily_bonus_amount,
                                      "daily_bonus", Date(now)) IN
          /\ last_login_date' = [last_login_date EXCEPT ![p] = Date(now)]
          /\ balance' = L.bal
          /\ journal' = L.jr
          /\ response' = Resp("daily_bonus", p, "ok")
  /\ UNCHANGED <<now, active_round_id, rounds, queue, abandoned, phrasesets,
                 votes, result_views>>
  /\ UNCHANGED <<memory_hits, checked>>

\* POST /auth/login
Login(p) ==
  /\ last_login_date' = [last_login_date EXCEPT ![p] = Date(now)]
  /\ response' = Resp("login", p, "ok")
  /\ UNCHANGED <<now, balance, active_round_id, journal, rounds, queue,
                 abandoned, phrasesets, votes, result_views, pending>>
  /\ UNCHANGED <<memory_hits, checked>>

\* midnight passes between requests
NextDay ==
  /\ pending = <<>>
  /\ Date(now) < MaxDay
  /\ now' = (Date(now) + 1) * SecondsPerDay
  /\ response' = NoResponse
  /\ UNCHANGED <<balance, active_round_id, last_login_date, journal, rounds,
                 queue, abandoned, phrasesets, votes, result_views, pending>>
  /\ UNCHANGED <<memory_hits, checked>>

InitBonus ==
  /\ now = StartTime
  /\ balance = [p \in Players |-> starting_balance]
  /\ active_round_id = [p \in Players |-> Null]
  /\ last_login_date = [p \in Players |-> Date(created_at(p))]
  /\ journal = [p \in Players |-> <<>>]
  /\ rounds = <<>>
  /\ queue = <<>>
  /\ abandoned = {}
  /\ phrasesets = <<>>
  /\ votes = <<>>
  /\ result_views = {}
  /\ pending = <<>>
  /\ response = NoResponse
  /\ memory_hits = NoHits
  /\ checked = NoCheck

NextBonus ==
  \/ \E p \in BonusPlayers : RequestClaimDailyBonus(p)
  \/ \E i \in 1..MaxPending : ExecClaimDailyBonus(i)
  \/ \E p \in BonusPlayers : Login(p)
  \/ NextDay

SpecBonus == InitBonus /\ [][NextBonus]_vars

\* the step answers a claim of the daily bonus
AnswersClaim(p) == response'.op = "daily_bonus" /\ response'.player = p

BonusEntries(j, d) ==
  {k \in 1..Len(j) : j[k].type = "daily_bonus" /\ j[k].reference_id = d}

\* C28: a claim on the day the account was created fails; a claim succeeds
\* only if no bonus was taken that day, and then credits exactly 100 through
\* one daily_bonus transaction; every other claim changes nothing; a player
\* has at most one daily_bonus transaction per calendar day, two claims in
\* flight together included.
C28_DailyBonus ==
  [][\A p \in BonusPlayers :
       /\ \A d \in 0..MaxDay : Cardinality(BonusEntries(journal'[p], d)) <= 1
       /\ AnswersClaim(p) =>
            IF response'.code = "ok"
            THEN /\ Date(created_at(p)) # Date(now)
                 /\ BonusEntries(journal[p], Date(now)) = {}
                 /\ balance'[p] = balance[p] + 100
                 /\ Len(journal'[p]) = Len(journal[p]) + 1
                 /\ journal'[p][Len(journal'[p])].type = "daily_bonus"
                 /\ journal'[p][Len(journal'[p])].amount = 100
            ELSE UNCHANGED <<balance, journal, last_login_date, rounds,
                             active_round_id>>]_vars

\* two claims of a were in flight together on one day: one was paid, the
\* other has just been refused
C28_SecondRefused ==
  /\ response.op = "daily_bonus"
  /\ response.player = "a"
  /\ response.code = "error_500"
  /\ Cardinality(BonusEntries(journal["a"], Date(now))) = 1
  /\ balance["a"] = starting_balance + daily_bonus_amount

\* ------------------------------------------- the rate limiter (SpecRate)
\* The dependency every authenticated request passes (get_current_player,
\* scope general) and the one of vote submissions (enforce_vote_rate_limit,
\* scope vote_submit), on the in-memory backend that an empty redis_url
\* selects.  The engines above model the handlers behind the dependency.
GENERAL_RATE_LIMIT == 100
VOTE_RATE_LIMIT == 20
RATE_LIMIT_WINDOW_SECONDS == 60
MaxRateTime == 60     \* the clock of the rate limiter stops here
MaxOtherHits == 1     \* hits of the keys other than general:k1, vote_submit:k1

\* while bucket and bucket[0] <= cutoff: bucket.popleft()
RECURSIVE Purge(_, _)
Purge(bucket, cutoff) ==
  IF bucket # <<>> /\ Head(bucket) <= cutoff THEN Purge(Tail(bucket), cutoff)
  ELSE bucket

\* RateLimiter.check on the in-memory backend: the answer and the buckets
\* it leaves
check(key, limit, window_seconds) ==
  IF limit <= 0 THEN [allowed |-> FALSE, hits |-> memory_hits]
  ELSE LET bucket == Purge(memory_hits[key], now - window_seconds)
           allowed == Len(bucket) < limit
       IN [allowed |-> allowed,
           hits |-> [memory_hits EXCEPT
                       ![key] = IF allowed THEN Append(bucket, now)
                                ELSE bucket]]

\* `await rate_limiter.check(...)`: check is a plain function, its call
\* runs to the end and returns a tuple, and awaiting a tuple raises
\* TypeError, which no caller catches: the request is answered 500
await_check(result) == "error_500"

\* _enforce_rate_limit for a request that carries an identifier
EnforceRateLimit(scope, identifier, limit) ==
  /\ LET result == check(<<scope, identifier>>, limit,
                         RATE_LIMIT_WINDOW_SECONDS) IN
     /\ memory_hits' = result.hits
     /\ response' = Resp(scope, identifier, await_check(result))
  /\ UNCHANGED <<now, balance, active_round_id, last_login_date, journal,
                 rounds, queue, abandoned, phrasesets, votes, result_views,
                 pending, checked>>

\* a window passes between requests
TickRate ==
  /\ now + RATE_LIMIT_WINDOW_SECONDS <= MaxRateTime
  /\ now' = now + RATE_LIMIT_WINDOW_SECONDS
  /\ response' = NoResponse
  /\ UNCHANGED <<balance, active_round_id, last_login_date, journal, rounds,
                 queue, abandoned, phrasesets, votes, result_views, pending,
                 memory_hits, checked>>

InitRate ==
  /\ now = 0
  /\ balance = [p \in Players |-> starting_balance]
  /\ active_round_id = [p \in Players |-> Null]
  /\ last_login_date = [p \in Players |-> Date(created_at(p))]
  /\ journal = [p \in Players |-> <<>>]
  /\ rounds = <<>>
  /\ queue = <<>>
  /\ abandoned = {}
  /\ phrasesets = <<>>
  /\ votes = <<>>
  /\ result_views = {}
  /\ pending = <<>>
  /\ response = NoResponse
  /\ memory_hits = NoHits
  /\ checked = NoCheck

\* the hits of one key are followed to its limit, those of the others to
\* MaxOtherHits
MayHit(key) ==
  \/ key \in {<<"general", "k1">>, <<"vote_submit", "k1">>}
  \/ Len(memory_hits[key]) < MaxOtherHits

NextRate ==
  \/ \E id \in RateIds :
        /\ MayHit(<<"general", id>>)
        /\ EnforceRateLimit("general", id, GENERAL_RATE_LIMIT)
  \/ \E id \in RateIds :
        /\ MayHit(<<"vote_submit", id>>)
        /\ EnforceRateLimit("vote_submit", id, VOTE_RATE_LIMIT)
  \/ TickRate

SpecRate == InitRate /\ [][NextRate]_vars

\* the limit of a scope
LimitOf(scope) ==
  IF scope = "general" THEN GENERAL_RATE_LIMIT ELSE VOTE_RATE_LIMIT

\* the hits recorded for a key inside the window that ends now
HitsInWindow(key) ==
  Cardinality({k \in 1..Len(memory_hits[key]) :
                 memory_hits[key][k] > now - RATE_LIMIT_WINDOW_SECONDS})

\* the step answers a request of the key
Limits(key) ==
  /\ response'.op = key[1]
  /\ response'.player = key[2]

\* C29: for each key a request is allowed exactly when fewer than the limit
\* of allowed requests lie in the 60 seconds before it, so the first 100
\* general requests (20 vote submissions) of a window pass and the next is
\* rejected; a rejected request uses no quota; the other keys are untouched.
C29_RateLimit ==
  [][\A key \in RateKeys :
       Limits(key) =>
         /\ response'.code \in {"ok", "rate_limited"}
         /\ (response'.code = "ok") <=> (HitsInWindow(key) < LimitOf(key[1]))
         /\ response'.code # "ok" => HitsInWindow(key)' = HitsInWindow(key)
         /\ \A other \in RateKeys \ {key} :
              memory_hits'[other] = memory_hits[other]]_vars

\* ------------------------------------------------ per-player serialization
\* request i is a vote-round start of player p between its read of the
\* balance and its commit
StartHoldsBalance(i, p) ==
  /\ i \in 1..Len(pending)
  /\ pending[i].op = "start_vote"
  /\ pending[i].player = p
  /\ pending[i].stage = "locked"

\* C30: the operations that mutate one player's state are serialized by one
\* per-player lock: while a vote-round start holds the balance it has read,
\* no other ledger transaction of the player changes the balance, and the
\* start's commit debits exactly the entry cost from the balance then
\* current, so that no balance update is lost.
C30_PlayerSerialized ==
  [][\A p \in Players : \A i \in 1..MaxPending :
       StartHoldsBalance(i, p) =>
         /\ balance'[p] # balance[p] => pending' = RemoveAt(pending, i)
         /\ pending' = RemoveAt(pending, i)
              => balance'[p] = balance[p] - vote_cost]_vars

\* ------------------------------------------------------ vote-count ordering
\* the Vote rows stored for a phraseset
VotesOn(ps) == {v \in VoteIds : votes[v].phraseset_id = ps}

\* C31: in every reachable state, after concurrent submissions by different
\* voters included, the vote_count of a phraseset equals the number of Vote
\* rows stored for it: no increment is lost or duplicated.
C31_VoteCountOrdered ==
  \A ps \in PhrasesetIds : phrasesets[ps].vote_count = Cardinality(VotesOn(ps))

\* ---------------------------------------------------- round cost accounting
\* the refund transactions written for round r
RefundsOf(r) ==
  {k \in 1..Len(journal[rounds[r].player_id]) :
     /\ journal[rounds[r].player_id][k].type = "refund"
     /\ journal[rounds[r].player_id][k].reference_id = r}

EntryTypes == {"prompt_entry", "copy_entry", "vote_entry"}

\* a step that creates a round writes its one entry debit, and no other
\* step writes an entry debit
DebitedAtCreation ==
  /\ Len(rounds') \in {Len(rounds), Len(rounds) + 1}
  /\ Len(rounds') = Len(rounds) + 1 =>
       LET r == rounds'[Len(rounds')]
           p == r.player_id
       IN /\ Len(journal'[p]) = Len(journal[p]) + 1
          /\ journal'[p][Len(journal'[p])].amount = -r.cost
          /\ journal'[p][Len(journal'[p])].type \in EntryTypes
  /\ Len(rounds') = Len(rounds) =>
       \A p \in Players : \A k \in (Len(journal[p]) + 1)..Len(journal'[p]) :
         journal'[p][k].type \notin EntryTypes

\* C32: every round has exactly one entry debit, written at its creation;
\* it has at most one refund transaction, and a submitted round has none,
\* also when the timeout of a round is handled twice at once or meets the
\* round's submission.
C32_RoundCostAccounting ==
  /\ [](\A r \in RoundIds :
          /\ Cardinality(RefundsOf(r)) <= 1
          /\ rounds[r].status = "submitted" => RefundsOf(r) = {})
  /\ [][DebitedAtCreation]_vars

\* ------------------------------------------------------- timeline marks
\* The vote engine of SpecScore with the time a request takes: the clock may
\* advance by up to MaxLag seconds while a submission is between its router
\* part and its service part.
MaxLag == 1

Elapse ==
  /\ pending # <<>>
  /\ now < StartTime + MaxLag
  /\ now' = now + 1
  /\ response' = NoResponse
  /\ UNCHANGED <<balance, active_round_id, last_login_date, journal, rounds,
                 queue, abandoned, phrasesets, votes, result_views, pending,
                 memory_hits, checked>>

InitMarks == InitScore

NextMarks ==
  \/ \E p \in Voters, ps \in 1..MaxPhrasesets, phrase \in ScoreInputs :
        RequestSubmitVote(p, ps, phrase)
  \/ \E i \in 1..MaxPending : ExecSubmitVote(i)
  \/ Elapse
  \/ Tick(MaxVoteTime)

SpecMarks == InitMarks /\ [][NextMarks]_vars

\* the marks of phraseset ps agree with its vote count
MarksSet(ps) ==
  /\ phrasesets[ps].vote_count >= 3 => phrasesets[ps].third_vote_at # NoTime
  /\ phrasesets[ps].vote_count >= 5 =>
       /\ phrasesets[ps].fifth_vote_at # NoTime
       /\ phrasesets[ps].status \in {"closing", "finalized"}

\* a step sets a mark of ps only with the vote that brings the count to 3
\* or to 5, and leaves a mark that is set as it is
MarksStep(ps) ==
  LET old == phrasesets[ps]
      new == phrasesets'[ps]
  IN /\ old.third_vote_at # NoTime => new.third_vote_at = old.third_vote_at
     /\ old.fifth_vote_at # NoTime => new.fifth_vote_at = old.fifth_vote_at
     /\ old.third_vote_at = NoTime /\ new.third_vote_at # NoTime =>
          new.vote_count = 3 /\ new.third_vote_at = now
     /\ old.fifth_vote_at = NoTime /\ new.fifth_vote_at # NoTime =>
          /\ new.vote_count = 5 /\ new.fifth_vote_at = now
          /\ new.status = "closing"
          /\ new.closes_at = new.fifth_vote_at + closing_window_seconds

\* C33: third_vote_at is set by the vote that brings vote_count to 3 and
\* fifth_vote_at by the one that brings it to 5, which makes the status
\* closing with closes_at 60 s later; no mark changes afterwards; so
\* vote_count >= 3 implies third_vote_at is set, and vote_count >= 5
\* implies fifth_vote_at is set and the status is closing or finalized.
C33_TimelineMarks ==
  /\ [](\A ps \in PhrasesetIds : MarksSet(ps))
  /\ [][\A ps \in PhrasesetIds : MarksStep(ps)]_vars

\* ------------------------------------------------------------ grace period
\* the instant now lies after the grace period of round r
AfterGrace(r) == now > rounds[r].expires_at + grace_period_seconds

\* a submission to the active round r is answered round_expired exactly
\* after its grace period
SubmissionGrace ==
  /\ response'.op = "submit_prompt" =>
       \A r \in RoundIds, w \in PromptInputs :
         rounds[r].status = "active"
         /\ SubmitPromptWord(rounds[r].player_id, r, w) =>
           (response'.code = "expired" <=> AfterGrace(r))
  /\ response'.op = "submit_copy" =>
       \A r \in RoundIds, w \in CopyInputs :
         rounds[r].status = "active"
         /\ SubmitCopyWord(rounds[r].player_id, r, w) =>
           (response'.code = "expired" <=> AfterGrace(r))

\* a step that expires, abandons or refunds round r
TimesOut(r) ==
  \/ /\ rounds[r].status = "active"
     /\ rounds'[r].status \in {"expired", "abandoned"}
  \/ LET p == rounds[r].player_id IN
       \E k \in (Len(journal[p]) + 1)..Len(journal'[p]) :
         journal'[p][k].type = "refund" /\ journal'[p][k].reference_id = r

\* C34: a round is timed out only when now > expires_at + 5 s: a
\* submission to an active round up to and including expires_at + 5 s is
\* not rejected as expired, a later one is rejected with round_expired, and
\* the timeout handling never expires, abandons or refunds a round at a
\* time <= expires_at + 5 s.
C34_GracePeriod ==
  [][/\ SubmissionGrace
     /\ \A r \in RoundIds : TimesOut(r) => AfterGrace(r)]_vars

\* a prompt was accepted at the last instant of its grace period
C34_LastInstant ==
  /\ response.op = "submit_prompt" /\ response.code = "ok"
  /\ \E r \in RoundIds :
       /\ rounds[r].player_id = response.player
       /\ rounds[r].round_type = "prompt"
       /\ rounds[r].status = "submitted"
       /\ now = rounds[r].expires_at + grace_period_seconds

\* ------------------------------------------- the phrase validator (SpecPhrase)
\* Phrases are sequences of characters.  The alphabet is the letters of the
\* dictionary words below in both cases, the blank and a digit.
Lowers == <<"a", "c", "d", "e", "i", "k", "l", "m", "o", "r", "x">>
Uppers == <<"A", "C", "D", "E", "I", "K", "L", "M", "O", "R", "X">>
Whitespace == {" "}
Letters == {Lowers[k] : k \in 1..Len(Lowers)} \cup {Uppers[k] : k \in 1..Len(Uppers)}

Characters == Letters \cup Whitespace \cup {"1"}

IndexIn(c, alphabet) == CHOOSE k \in 1..Len(alphabet) : alphabet[k] = c

\* str.upper and str.lower
StrUpper(s) ==
  [k \in 1..Len(s) |->
     IF \E j \in 1..Len(Lowers) : Lowers[j] = s[k]
     THEN Uppers[IndexIn(s[k], Lowers)] ELSE s[k]]

StrLower(s) ==
  [k \in 1..Len(s) |->
     IF \E j \in 1..Len(Uppers) : Uppers[j] = s[k]
     THEN Lowers[IndexIn(s[k], Uppers)] ELSE s[k]]

\* str.strip
RECURSIVE LStrip(_)
LStrip(s) ==
  IF s # <<>> /\ s[1] \in Whitespace THEN LStrip(Tail(s)) ELSE s

RECURSIVE RStrip(_)
RStrip(s) ==
  IF s # <<>> /\ s[Len(s)] \in Whitespace
  THEN RStrip(SubSeq(s, 1, Len(s) - 1)) ELSE s

StrStrip(s) == RStrip(LStrip(s))

\* re.sub(r'\s+', ' ', s)
RECURSIVE Collapse(_)
Collapse(s) ==
  IF s = <<>> THEN <<>>
  ELSE IF s[1] \in Whitespace THEN <<" ">> \o Collapse(LStrip(s))
  ELSE <<s[1]>> \o Collapse(Tail(s))

\* the length of the longest prefix of s made of characters of set C
RECURSIVE Run(_, _)
Run(s, C) == IF s # <<>> /\ s[1] \in C THEN 1 + Run(Tail(s), C) ELSE 0

\* str.split
RECURSIVE split(_)
split(s) ==
  LET t == LStrip(s)
      n == Run(t, Characters \ Whitespace)
  IN IF t = <<>> THEN <<>>
     ELSE <<SubSeq(t, 1, n)>> \o split(SubSeq(t, n + 1, Len(t)))

\* PhraseValidator._parse_phrase
parse_phrase(phrase) == split(Collapse(StrStrip(phrase)))

\* data/dictionary.txt and PhraseValidator.CONNECTING_WORDS
Dictionary == {<<"I", "C", "E">>, <<"C", "R", "E", "A", "M">>,
               <<"C", "O", "L", "D">>, <<"M", "I", "L", "K">>}
CONNECTING_WORDS == {<<"A">>, <<"I">>}

phrase_min_words == 1
phrase_max_words == 5
phrase_max_length == 100
phrase_min_char_per_word == 2
phrase_max_char_per_word == 15
significant_word_min_length == 4
\* the two thresholds of 0.8, in hundredths
similarity_threshold == 80
word_similarity_threshold == 80

\* the loop over the words of PhraseValidator.validate
RECURSIVE ValidateWords(_)
ValidateWords(words) ==
  IF words = <<>> THEN ""
  ELSE IF StrUpper(Head(words)) \in CONNECTING_WORDS
  THEN ValidateWords(Tail(words))
  ELSE IF Len(Head(words)) < phrase_min_char_per_word THEN "word_too_short"
  ELSE IF Len(Head(words)) > phrase_max_char_per_word THEN "word_too_long"
  ELSE IF StrUpper(Head(words)) \notin Dictionary THEN "not_in_dictionary"
  ELSE ValidateWords(Tail(words))

\* PhraseValidator.validate: "" when the phrase is valid
phrase_validate(raw) ==
  LET phrase == StrStrip(raw)
      words == parse_phrase(phrase)
  IN IF phrase = <<>> THEN "empty"
     ELSE IF Len(phrase) > phrase_max_length THEN "too_long"
     ELSE IF \E k \in 1..Len(phrase) : phrase[k] \notin Letters \cup Whitespace
     THEN "bad_characters"
     ELSE IF Len(words) < phrase_min_words THEN "too_few_words"
     ELSE IF Len(words) > phrase_max_words THEN "too_many_words"
     ELSE ValidateWords(words)

\* re.findall(r"[a-zA-Z]+", s)
RECURSIVE LetterRuns(_)
LetterRuns(s) ==
  IF s = <<>> THEN {}
  ELSE IF s[1] \notin Letters THEN LetterRuns(Tail(s))
  ELSE {SubSeq(s, 1, Run(s, Letters))}
       \cup LetterRuns(SubSeq(s, Run(s, Letters) + 1, Len(s)))

\* PhraseValidator._extract_significant_words
extract_significant_words(phrase) ==
  {StrLower(w) : w \in {x \in LetterRuns(phrase) :
                          Len(x) >= significant_word_min_length}}

\* difflib.SequenceMatcher.find_longest_match: the blocks a[i..i+k-1] =
\* b[j..j+k-1], the longest first, then the earliest in a, then in b
Blocks(a, b) ==
  {t \in (1..Len(a)) \X (1..Len(b)) \X (1..Len(a)) :
     /\ t[1] + t[3] - 1 <= Len(a)
     /\ t[2] + t[3] - 1 <= Len(b)
     /\ SubSeq(a, t[1], t[1] + t[3] - 1) = SubSeq(b, t[2], t[2] + t[3] - 1)}

LongestBlock(a, b) ==
  CHOOSE t \in Blocks(a, b) : \A u \in Blocks(a, b) :
    \/ t[3] > u[3]
    \/ t[3] = u[3] /\ t[1] < u[1]
    \/ t[3] = u[3] /\ t[1] = u[1] /\ t[2] <= u[2]

\* the matched characters of SequenceMatcher.get_matching_blocks
RECURSIVE Matches(_, _)
Matches(a, b) ==
  IF Blocks(a, b) = {} THEN 0
  ELSE LET t == LongestBlock(a, b) IN
       t[3] + Matches(SubSeq(a, 1, t[1] - 1), SubSeq(b, 1, t[2] - 1))
            + Matches(SubSeq(a, t[1] + t[3], Len(a)),
                      SubSeq(b, t[2] + t[3], Len(b)))

\* PhraseValidator._are_words_too_similar: ratio() = 2 M / T
are_words_too_similar(word1, word2) ==
  \/ word1 = word2
  \/ 200 * Matches(word1, word2)
       >= word_similarity_threshold * (Len(word1) + Len(word2))

\* PhraseValidator._check_significant_word_conflicts against one phrase
check_significant_word_conflicts(phrase, comparison) ==
  LET phrase_words == extract_significant_words(phrase)
      comparison_words == extract_significant_words(comparison)
  IN IF phrase_words = {} \/ comparison = <<>> \/ comparison_words = {}
     THEN TRUE
     ELSE /\ phrase_words \cap comparison_words = {}
          /\ \A w1 \in phrase_words, w2 \in comparison_words :
               ~are_words_too_similar(w1, w2)

\* what the embedding model does when asked: it cannot be loaded or
\* encode raises ("fails"), or it gives a cosine similarity, in hundredths
SimilarityOutcomes == {"fails", "unrelated", "synonyms"}
Cosine(outcome) == IF outcome = "synonyms" THEN 90 ELSE 30

\* PhraseValidator.calculate_similarity
calculate_similarity(outcome) ==
  IF outcome = "fails" THEN 0 ELSE Cosine(outcome)

\* PhraseValidator.validate_copy, without a prompt text; an absent other
\* copy is <<>>
phrase_validate_copy(phrase, original_phrase, other_copy_phrase, outcome) ==
  IF phrase_validate(phrase) # "" THEN phrase_validate(phrase)
  ELSE IF StrUpper(StrStrip(phrase)) = StrUpper(StrStrip(original_phrase))
  THEN "duplicate"
  ELSE IF /\ other_copy_phrase # <<>>
          /\ StrUpper(StrStrip(phrase)) = StrUpper(StrStrip(other_copy_phrase))
  THEN "duplicate_other"
  ELSE IF ~check_significant_word_conflicts(phrase, original_phrase)
  THEN "significant_word"
  ELSE IF ~check_significant_word_conflicts(phrase, other_copy_phrase)
  THEN "significant_word"
  ELSE IF calculate_similarity(outcome) >= similarity_threshold
  THEN "too_similar"
  ELSE IF /\ other_copy_phrase # <<>>
          /\ calculate_similarity(outcome) >= similarity_threshold
  THEN "too_similar"
  ELSE ""

\* The phrases handed to the validator: one or two words in either case,
\* with a digit or unknown to the dictionary, between blanks in runs of up
\* to MaxGap.
MaxGap == 93

Blank(n) == [k \in 1..n |-> " "]

PhraseTokens ==
  {<<"i", "c", "e">>, <<"I", "c", "E">>, <<"c", "r", "e", "a", "m">>,
   <<"c", "o", "l", "d">>, <<"x">>, <<"i", "c", "1">>}

Gaps == {1, 2, MaxGap}

PhraseInputs ==
  {Blank(l) \o t1 \o Blank(r) : l \in 0..1, t1 \in PhraseTokens, r \in 0..1}
  \cup {Blank(l) \o t1 \o Blank(g) \o t2 \o Blank(r) :
          l \in 0..1, t1 \in PhraseTokens, g \in Gaps, t2 \in PhraseTokens,
          r \in 0..1}

OriginalPhrase == <<"i", "c", "e", " ", "c", "r", "e", "a", "m">>
OtherCopies == {<<>>, <<"c", "o", "l", "d", " ", "m", "i", "l", "k">>}

InitPhrase ==
  /\ now = 0
  /\ balance = [p \in Players |-> starting_balance]
  /\ active_round_id = [p \in Players |-> Null]
  /\ last_login_date = [p \in Players |-> Date(created_at(p))]
  /\ journal = [p \in Players |-> <<>>]
  /\ rounds = <<>>
  /\ queue = <<>>
  /\ abandoned = {}
  /\ phrasesets = <<>>
  /\ votes = <<>>
  /\ result_views = {}
  /\ pending = <<>>
  /\ response = NoResponse
  /\ memory_hits = NoHits
  /\ \E x \in PhraseInputs, o \in OtherCopies :
       checked = [NoCheck EXCEPT !.op = "input", !.phrase = x,
                                 !.original = OriginalPhrase, !.other = o]

\* a call of PhraseValidator.validate
Validate ==
  /\ checked.op = "input"
  /\ checked' = [checked EXCEPT
       !.op = "validate",
       !.valid = (phrase_validate(checked.phrase) = "")]
  /\ UNCHANGED <<now, balance, active_round_id, last_login_date, journal,
                 rounds, queue, abandoned, phrasesets, votes, result_views,
                 pending, response, memory_hits>>

\* a call of PhraseValidator.validate_copy
ValidateCopy(outcome) ==
  /\ checked.op = "input"
  /\ checked' = [checked EXCEPT
       !.op = "validate_copy",
       !.similarity = outcome,
       !.valid = (phrase_validate_copy(checked.phrase, checked.original,
                                       checked.other, outcome) = "")]
  /\ UNCHANGED <<now, balance, active_round_id, last_login_date, journal,
                 rounds, queue, abandoned, phrasesets, votes, result_views,
                 pending, response, memory_hits>>

NextPhrase ==
  \/ Validate
  \/ \E outcome \in SimilarityOutcomes : ValidateCopy(outcome)

SpecPhrase == InitPhrase /\ [][NextPhrase]_vars

\* C35: a copy whose similarity computation failed is rejected; no copy is
\* accepted on a similarity check that did not complete.
C35_FailClosed ==
  checked.op = "validate_copy" /\ checked.similarity = "fails" =>
    ~checked.valid

\* the normalized form of a phrase: trimmed, inner whitespace collapsed,
\* case-folded
Normalized(x) == StrLower(Collapse(StrStrip(x)))

\* C36: validating the normalized form of an input gives the same
\* accept/reject result as validating the input itself, also for inputs
\* longer than 100 characters only because of repeated whitespace.
C36_NormalizationInvariant ==
  checked.op = "validate" =>
    (checked.valid <=> phrase_validate(Normalized(checked.phrase)) = "")

\* ------------------------------------------------ votes after finalization
\* a step leaves the votes of the finalized phraseset ps as they are
Frozen(ps) ==
  /\ {v \in 1..Len(votes') : votes'[v].phraseset_id = ps} = VotesOn(ps)
  /\ phrasesets'[ps].vote_count = phrasesets[ps].vote_count
  /\ \A p \in Players : \A k \in (Len(journal[p]) + 1)..Len(journal'[p]) :
       journal'[p][k].type = "vote_payout" =>
         votes'[journal'[p][k].reference_id].phraseset_id # ps

\* C37: once a phraseset is finalized no further Vote is recorded on it,
\* its vote_count never changes (and never exceeds 20) and no further
\* vote_payout is credited for it, also for a voter whose vote round was
\* started before the finalization and is submitted after it.
C37_FrozenAtFinalization ==
  /\ [](\A ps \in PhrasesetIds : phrasesets[ps].vote_count <= max_votes)
  /\ [][\A ps \in PhrasesetIds :
          phrasesets[ps].status = "finalized" => Frozen(ps)]_vars

\* ------------------------------------------------- exclusive queue membership
\* the positions of prompt round prid in the prompt queue
QueuePositions(prid) == {k \in 1..Len(queue) : queue[k] = prid}

\* the active copy rounds leasing prompt round prid
ActiveLeases(prid) ==
  {c \in RoundIds : /\ rounds[c].round_type = "copy"
                    /\ rounds[c].status = "active"
                    /\ rounds[c].prompt_round_id = prid}

\* C38: every prompt round id occurs at most once in the prompt queue, and
\* not at all while an active copy round is leasing it, also when the
\* timeout of one copy round is handled twice at once.
C38_QueueExclusive ==
  \A prid \in RoundIds :
    /\ Cardinality(QueuePositions(prid)) <= 1
    /\ QueuePositions(prid) # {} => ActiveLeases(prid) = {}

\* ----------------------------------------------------------- distinct copiers
\* the copy rounds player p holds on prompt round prid, active or submitted
HeldCopies(p, prid) ==
  {c \in RoundIds : /\ rounds[c].round_type = "copy"
                    /\ rounds[c].player_id = p
                    /\ rounds[c].prompt_round_id = prid
                    /\ rounds[c].status \in {"active", "submitted"}}

\* a step that creates a copy round gives it to a player who holds none on
\* that prompt
GivenToNewCopier ==
  Len(rounds') = Len(rounds) + 1 /\ rounds'[Len(rounds')].round_type = "copy" =>
    HeldCopies(rounds'[Len(rounds')].player_id,
               rounds'[Len(rounds')].prompt_round_id) = {}

\* C39: the two copy rounds of every phraseset are owned by two different
\* players, and a player who holds an active or submitted copy round on a
\* prompt is never given a second copy round on that prompt.
C39_DistinctCopiers ==
  /\ [](\A ps \in PhrasesetIds :
          rounds[phrasesets[ps].copy_round_1_id].player_id
            # rounds[phrasesets[ps].copy_round_2_id].player_id)
  /\ [][GivenToNewCopier]_vars

\* ------------------------------------------------- claimed amount = paid
\* amount is what the finalization of phraseset ps has paid to contributor
\* p: the amount of the prize_payout transaction written for p and ps, 0
\* without one
IsPaidAmount(amount, p, ps) ==
  IF PrizePayouts(p, ps) = {} THEN amount = 0
  ELSE \A k \in PrizePayouts(p, ps) : journal[p][k].amount = amount

\* C40: for every contributor of a finalized phraseset the amount returned
\* by the claim, and the amount stored for the results view, is the amount
\* of the prize_payout transaction written for the contributor at the
\* finalization, or 0 if none was written, whenever the claim is made.
C40_ClaimedEqualsPaid ==
  /\ [](\A rv \in result_views :
          IsPaidAmount(rv.payout_amount, rv.player_id, rv.phraseset_id))
  /\ [][ClaimStep =>
          IsPaidAmount(response'.amount, response'.player, response'.id)]_vars

====
